---- MODULE Spec2Model ----
(***************************************************************************)
(* A model of the import pipeline and the client of python-pilosa:         *)
(*   pilosa/imports.py   Column, FieldValue, batch_columns                 *)
(*   pilosa/client.py    Client.import_field, Client._import_data,         *)
(*                       Client.__http_request, Cluster, _ImportRequest,   *)
(*                       _ImportValueRequest, _Node, URI                   *)
(*   examples/multicol-csv-import/import.py   import_csv, import_field     *)
(*                                                                         *)
(* The specifications share the variables:                                 *)
(*   SpecBatch   list(batch_columns(reader, batch_size, shard_width))      *)
(*   SpecBatchFair  the same, the caller going on until the generator ends *)
(*   SpecEncode  _ImportRequest(field, shard, columns).to_protobuf() and   *)
(*               .to_bitmap(clear)                                         *)
(*   SpecImport  Client.import_field(field, reader, batch_size,            *)
(*               fast_import, clear), one action per HTTP attempt          *)
(*   SpecImportAny  the same call for one record of any id/key form        *)
(*   SpecPool    import_csv: the producer, the queue and the workers       *)
(*   SpecShared  the workers of import_csv inside __http_request of the    *)
(*               one Client they were all given, one action per access to  *)
(*               the Client's attributes                                   *)
(*   SpecReader  csv_column_reader(file_obj, int, formatfunc) and          *)
(*               csv_field_value_reader(file_obj, formatfunc), one action  *)
(*               per line; a line is the sequence of its characters        *)
(*   SpecRecreate  Client(...) and the Clients made again from its public  *)
(*               attributes, as _import_data makes the Client of a node    *)
(*   SpecCluster  a Cluster and the calls of add_host, remove_host and     *)
(*               get_host made on it                                       *)
(*   SpecRequest  one Client and the calls of __http_request made on it    *)
(*               one after the other, with and without use_coordinator     *)
(*   SpecPoolFair  SpecPool with fairly scheduled threads                  *)
(***************************************************************************)
EXTENDS Integers, Sequences, FiniteSets, TLC

VARIABLES
    \* ---- batch_columns (a generator) and its caller
    reader,        \* the records the reader has not produced yet
    taken,         \* the records pulled from the reader so far (history)
    batch_size,    \* argument batch_size
    shard_width,   \* argument shard_width
    bit_groups,    \* the dict bit_groups minus the items already yielded
    emitted,       \* the (shard, group) pairs yielded so far (history)
    pc,            \* position of the running call
    \* ---- Client.import_field
    field,         \* the Field descriptor (with its index)
    opts,          \* the arguments fast_import and clear
    client,        \* the calling Client: use_manual_address, cluster.hosts,
                   \* __current_host
    cur,           \* the (shard, data) pair _import_data is working on
    nodes,         \* the local list nodes of _import_data
    node_i,        \* index of the node the for loop of _import_data is at
    nclient,       \* the per-node Client made at client.py:359
    http,          \* the running __http_request: its client, method, path, body
                   \* and the number of passes of its loop made so far
                   \* (in SpecShared: the locals of each worker's call)
    raised,        \* the exception import_field raised, None when none
    sent,          \* every HTTP attempt made so far, with its outcome (history)
    lookups,       \* the topology lookups called so far (history)
    \* ---- _ImportRequest encoders applied on their own
    req,           \* the _ImportRequest object
    wire,          \* the bytes the encoder returned
    \* ---- import_csv worker pool
    q,             \* queue.Queue: the items in it
    unfinished,    \* queue.Queue.unfinished_tasks
    mainpc,        \* position of import_csv
    started,       \* number of worker threads started
    to_put,        \* the fields import_csv has not put on the queue yet
    sentinels,     \* number of None sentinels put so far
    joined,        \* number of worker threads joined so far
    wpc,           \* position of each worker thread
    witem,         \* the item each worker holds
    processed,     \* the items whose import completed, in completion order (history)
    \* ---- csv_column_reader / csv_field_value_reader (generators)
    file_obj,      \* the lines of the file not read yet
    lines_read,    \* the lines read so far (history)
    yielded,       \* the records yielded so far (history)
    rargs,         \* which reader runs, and its formatfunc
    rpc,           \* position of the generator
    rerror,        \* the exception that ended it, None when none
    \* ---- a Cluster and the calls made on it
    cluster_hosts, \* Cluster.hosts: the list of (host, available) pairs
    inserted,      \* the distinct URIs given to the Cluster, in the order of
                   \* their first insertion (history)
    calls,         \* the calls made so far, with hosts before and the result
                   \* (history)
    \* ---- Client(...) and the Clients made again from its public attributes
    clients,       \* the public attributes of the first Client and of every
                   \* Client made from the one before it
    \* ---- one Client and the requests made on it one after the other
    rclient,       \* the Client: use_manual_address, cluster.hosts,
                   \* __current_host, __coordinator_uri
    down,          \* the addresses no connection can be made to
    coord,         \* the nodes the server lists in its answer to /status
    rq,            \* the running __http_request: its arguments and locals
    attempts,      \* every call of self.__client.request so far (history)
    results        \* how each finished request ended (history)

batchData  == <<reader, taken, batch_size, shard_width, bit_groups, emitted>>
batchVars  == <<batchData, pc>>
importVars == <<field, opts, client, cur, nodes, node_i, nclient, http, raised,
                sent, lookups>>
encVars    == <<req, wire>>
poolVars   == <<q, unfinished, mainpc, started, to_put, sentinels, joined, wpc,
                witem, processed>>
readerVars == <<file_obj, lines_read, yielded, rargs, rpc, rerror>>
clusterVars == <<cluster_hosts, inserted, calls>>
recreateVars == <<clients>>
requestVars == <<rclient, down, coord, rq, attempts, results>>
moreVars   == <<clusterVars, recreateVars, requestVars>>
vars       == <<batchVars, importVars, encVars, poolVars, readerVars, moreVars>>

\* Python's None where an object is expected, and "no exception"
None == [none |-> TRUE]
NoError == "None"

(***************************************************************************)
(* Bounds of the model.                                                    *)
(***************************************************************************)
MaxLen       == 3   \* longest reader of SpecBatch
MaxBatch     == 3   \* largest batch_size of SpecBatch
MaxGroupLen  == 2   \* longest record group of SpecEncode
MaxImportLen == 2   \* longest reader of SpecImport

(***************************************************************************)
(* Sequence helpers.                                                       *)
(***************************************************************************)
Range(s) == {s[i] : i \in DOMAIN s}

SeqsUpTo(S, n) == UNION {[1..k -> S] : k \in 0..n}

Min(a, b) == IF a <= b THEN a ELSE b

\* number of positions of s holding x
Count(s, x) == Cardinality({i \in DOMAIN s : s[i] = x})

RECURSIVE Flatten(_)
Flatten(ss) == IF ss = <<>> THEN <<>> ELSE Head(ss) \o Flatten(Tail(ss))

(***************************************************************************)
(* imports.py: Column and FieldValue.                                      *)
(***************************************************************************)
Column(row_id, column_id, row_key, column_key, timestamp) ==
    [row_id |-> row_id, column_id |-> column_id, row_key |-> row_key,
     column_key |-> column_key, timestamp |-> timestamp]

FieldValue(column_id, column_key, value) ==
    [column_id |-> column_id, column_key |-> column_key, value |-> value]

(***************************************************************************)
(* imports.py: batch_columns.                                              *)
(***************************************************************************)
\* itertools.islice(reader, batch_size): the first batch_size records
IsliceAll(rd, n) == rd

IsliceShort(rd, n) == SubSeq(rd, 1, Min(n - 1, Len(rd)))

Islice(rd, n) == SubSeq(rd, 1, Min(n, Len(rd)))

\* bit.column_id // shard_width
ShardOf(bit, width) == bit.column_id \div width

\* the dict built by lines 186-188: shard -> the batch's records of that shard,
\* in batch order
BitGroupsDropLast(batch, width) ==
    [s \in {ShardOf(batch[i], width) : i \in DOMAIN batch} |->
        SelectSeq(SubSeq(batch, 1, Len(batch) - 1),
                  LAMBDA b : ShardOf(b, width) = s)]

BitGroups(batch, width) ==
    [s \in {ShardOf(batch[i], width) : i \in DOMAIN batch} |->
        SelectSeq(batch, LAMBDA b : ShardOf(b, width) = s)]

\* lines 183-188: pull a batch; stop when it is empty, group it otherwise
BatchPull ==
    /\ pc = "pull"
    /\ LET batch == Islice(reader, batch_size) IN
        /\ reader' = SubSeq(reader, Len(batch) + 1, Len(reader))
        /\ taken' = taken \o batch
        /\ IF batch = <<>>
              THEN /\ pc' = "done"
                   /\ bit_groups' = bit_groups
              ELSE /\ pc' = "yield"
                   /\ bit_groups' = BitGroups(batch, shard_width)
    /\ UNCHANGED <<batch_size, shard_width, emitted>>

\* lines 189-190: yield one item of the dict (Python 2 dicts have no order)
BatchYield ==
    /\ pc = "yield"
    /\ \E s \in DOMAIN bit_groups :
        /\ emitted' = Append(emitted, <<s, bit_groups[s]>>)
        /\ bit_groups' = [t \in DOMAIN bit_groups \ {s} |-> bit_groups[t]]
    /\ pc' = "body"
    /\ UNCHANGED <<reader, taken, batch_size, shard_width>>

\* where the generator resumes once its caller asks for the next item
Resume == IF DOMAIN bit_groups = {} THEN "pull" ELSE "yield"

\* list(batch_columns(...)): the caller only collects the item
ListNext ==
    /\ pc = "body"
    /\ pc' = Resume
    /\ UNCHANGED <<reader, taken, batch_size, shard_width, bit_groups, emitted>>

(***************************************************************************)
(* SpecBatch: list(batch_columns(reader, batch_size, shard_width)).        *)
(***************************************************************************)
BatchRowIds    == {0, 1}
BatchColumnIds == {0, 1, 2}
BatchWidths    == {1, 2}

BatchRecords ==
    {Column(r, c, "", "", 0) : r \in BatchRowIds, c \in BatchColumnIds}

IdleImport ==
    /\ field = None /\ opts = None /\ client = None
    /\ cur = None /\ nodes = <<>> /\ node_i = 0 /\ nclient = None
    /\ http = None /\ raised = NoError /\ sent = <<>> /\ lookups = <<>>

IdleEnc == req = None /\ wire = None

IdleReader ==
    /\ file_obj = <<>> /\ lines_read = <<>> /\ yielded = <<>>
    /\ rargs = None /\ rpc = "idle" /\ rerror = NoError

IdlePool ==
    /\ q = <<>> /\ unfinished = 0 /\ mainpc = "idle" /\ started = 0
    /\ to_put = <<>> /\ sentinels = 0 /\ joined = 0
    /\ wpc = <<>> /\ witem = <<>> /\ processed = <<>>

IdleCluster == cluster_hosts = <<>> /\ inserted = <<>> /\ calls = <<>>

IdleRecreate == clients = <<>>

IdleRequest ==
    /\ rclient = None /\ down = {} /\ coord = <<>>
    /\ rq = None /\ attempts = <<>> /\ results = <<>>

IdleMore == IdleCluster /\ IdleRecreate /\ IdleRequest

IdleBatch ==
    /\ reader = <<>> /\ taken = <<>> /\ batch_size = 1 /\ shard_width = 1
    /\ bit_groups = <<>> /\ emitted = <<>> /\ pc = "idle"

InitBatch ==
    /\ reader \in SeqsUpTo(BatchRecords, MaxLen)
    /\ batch_size \in 1..MaxBatch
    /\ shard_width \in BatchWidths
    /\ taken = <<>>
    /\ bit_groups = <<>>
    /\ emitted = <<>>
    /\ pc = "pull"
    /\ IdleImport /\ IdleEnc /\ IdlePool /\ IdleReader /\ IdleMore

NextBatch ==
    \/ BatchPull /\ UNCHANGED <<importVars, encVars, readerVars, moreVars, poolVars>>
    \/ BatchYield /\ UNCHANGED <<importVars, encVars, readerVars, moreVars, poolVars>>
    \/ ListNext /\ UNCHANGED <<importVars, encVars, readerVars, moreVars, poolVars>>

SpecBatch == InitBatch /\ [][NextBatch]_vars

(***************************************************************************)
(* C1: the groups emitted by batch_columns partition the records read:     *)
(* every record pulled from the reader is, at the end of a batch, in       *)
(* exactly one emitted group (as often as it was read), and every record   *)
(* of a group emitted with shard s has column_id div shard_width = s.      *)
(***************************************************************************)
EmittedRecords == Flatten([i \in DOMAIN emitted |-> emitted[i][2]])

C1_Partition ==
    /\ \A i \in DOMAIN emitted : \A j \in DOMAIN emitted[i][2] :
          emitted[i][2][j].column_id \div shard_width = emitted[i][1]
    /\ \A r \in BatchRecords :
          Count(EmittedRecords, r) <= Count(taken, r)
    /\ (pc \in {"pull", "done"}) =>
          \A r \in BatchRecords : Count(EmittedRecords, r) = Count(taken, r)
    /\ (pc = "done") => (reader = <<>>)

C1_Witness ==
    /\ pc = "done"
    /\ Len(taken) = 3
    /\ Len(emitted) = 3
    /\ \E i, j \in DOMAIN emitted : emitted[i][1] # emitted[j][1]
    /\ \E i, j \in DOMAIN taken : i # j /\ taken[i] = taken[j]

(***************************************************************************)
(* orm.py: Field, Index, TimeQuantum.                                      *)
(***************************************************************************)
\* TimeQuantum values, as the sequence of their characters (orm.py:78-88)
TimeQuantumNONE == <<>>

TimeQuanta ==
    {<<>>, <<"Y">>, <<"M">>, <<"D">>, <<"H">>, <<"Y", "M">>, <<"M", "D">>,
     <<"D", "H">>, <<"Y", "M", "D">>, <<"M", "D", "H">>, <<"Y", "M", "D", "H">>}

\* Index(name, keys, shard_width) and Field(index, name, time_quantum, ...,
\* int_min, int_max, keys, mutex, bool); int_range stands for
\* int_min != 0 or int_max != 0
MkField(index_keys, index_shard_width, keys, time_quantum, int_range, mutex, bool) ==
    [index |-> [name |-> "i", keys |-> index_keys, shard_width |-> index_shard_width],
     name |-> "f", keys |-> keys, time_quantum |-> time_quantum,
     int_range |-> int_range, mutex |-> mutex, bool |-> bool]

\* Field.field_type
FieldType(f) ==
    IF f.mutex THEN "mutex"
    ELSE IF f.bool THEN "bool"
    ELSE IF f.time_quantum # TimeQuantumNONE THEN "time"
    ELSE IF f.int_range THEN "int"
    ELSE "set"

(***************************************************************************)
(* client.py: _ImportRequest.                                              *)
(***************************************************************************)
PilosaError == "PilosaError"

\* _ImportRequest.__init__, lines 658-661: the row/column format
ImportFormatSwapped(f) ==
    IF f.keys
        THEN IF f.index.keys THEN "csv_row_key_column_key" ELSE "csv_row_id_column_key"
        ELSE IF f.index.keys THEN "csv_row_key_column_id" ELSE "csv_row_id_column_id"

ImportFormat(f) ==
    IF f.index.keys
        THEN IF f.keys THEN "csv_row_key_column_key" ELSE "csv_row_id_column_key"
        ELSE IF f.keys THEN "csv_row_key_column_id" ELSE "csv_row_id_column_id"

\* _ImportRequest.__init__
ImportRequest(f, shard, columns) ==
    [index_name |-> f.index.name,
     field_name |-> f.name,
     field_time_quantum |->
        IF f.time_quantum # TimeQuantumNONE THEN f.time_quantum ELSE <<>>,
     shard |-> shard,
     columns |-> columns,
     format |-> ImportFormat(f)]

\* [f(bit) for bit in columns]
MapSeq(s, F(_)) == [i \in DOMAIN s |-> F(s[i])]

\* _ImportRequest.to_protobuf: the internal.ImportRequest message it fills
ToProtobufNoTimestamps(r) ==
    LET msg(rows_are_keys, cols_are_keys) ==
            [Index |-> r.index_name, Field |-> r.field_name, Shard |-> r.shard,
             RowIDs |-> IF rows_are_keys THEN <<>>
                        ELSE MapSeq(r.columns, LAMBDA bit : bit.row_id),
             ColumnIDs |-> IF cols_are_keys THEN <<>>
                           ELSE MapSeq(r.columns, LAMBDA bit : bit.column_id),
             RowKeys |-> IF rows_are_keys
                         THEN MapSeq(r.columns, LAMBDA bit : bit.row_key) ELSE <<>>,
             ColumnKeys |-> IF cols_are_keys
                            THEN MapSeq(r.columns, LAMBDA bit : bit.column_key) ELSE <<>>,
             Timestamps |-> IF rows_are_keys /\ cols_are_keys THEN <<>>
                            ELSE MapSeq(r.columns, LAMBDA bit : bit.timestamp)]
    IN  CASE r.format = "csv_row_id_column_id"   -> msg(FALSE, FALSE)
          [] r.format = "csv_row_id_column_key"  -> msg(FALSE, TRUE)
          [] r.format = "csv_row_key_column_id"  -> msg(TRUE, FALSE)
          [] r.format = "csv_row_key_column_key" -> msg(TRUE, TRUE)
          [] OTHER -> PilosaError

ToProtobuf(r) ==
    LET msg(rows_are_keys, cols_are_keys) ==
            [Index |-> r.index_name, Field |-> r.field_name, Shard |-> r.shard,
             RowIDs |-> IF rows_are_keys THEN <<>>
                        ELSE MapSeq(r.columns, LAMBDA bit : bit.row_id),
             ColumnIDs |-> IF cols_are_keys THEN <<>>
                           ELSE MapSeq(r.columns, LAMBDA bit : bit.column_id),
             RowKeys |-> IF rows_are_keys
                         THEN MapSeq(r.columns, LAMBDA bit : bit.row_key) ELSE <<>>,
             ColumnKeys |-> IF cols_are_keys
                            THEN MapSeq(r.columns, LAMBDA bit : bit.column_key) ELSE <<>>,
             Timestamps |-> MapSeq(r.columns, LAMBDA bit : bit.timestamp)]
    IN  CASE r.format = "csv_row_id_column_id"   -> msg(FALSE, FALSE)
          [] r.format = "csv_row_id_column_key"  -> msg(FALSE, TRUE)
          [] r.format = "csv_row_key_column_id"  -> msg(TRUE, FALSE)
          [] r.format = "csv_row_key_column_key" -> msg(TRUE, TRUE)
          [] OTHER -> PilosaError

(***************************************************************************)
(* The protobuf wire form of internal.ImportRequest and                    *)
(* internal.ImportValueRequest (pilosa/internal/public_pb2, generated code *)
(* outside src/): a sequence of (field, value) entries, one entry per      *)
(* element of a repeated field; a scalar field holding its default value   *)
(* is left out.                                                            *)
(***************************************************************************)
RepeatedFields ==
    <<"RowIDs", "ColumnIDs", "RowKeys", "ColumnKeys", "Timestamps", "Values">>

WireEntries(tag, values) == [i \in DOMAIN values |-> <<tag, values[i]>>]

SerializeToString(msg) ==
    (IF msg.Index = "" THEN <<>> ELSE << <<"Index", msg.Index>> >>)
    \o (IF msg.Field = "" THEN <<>> ELSE << <<"Field", msg.Field>> >>)
    \o (IF msg.Shard = 0 THEN <<>> ELSE << <<"Shard", msg.Shard>> >>)
    \o Flatten([i \in DOMAIN RepeatedFields |->
                    IF RepeatedFields[i] \in DOMAIN msg
                        THEN WireEntries(RepeatedFields[i], msg[RepeatedFields[i]])
                        ELSE <<>>])

WireValues(bytes, tag) ==
    MapSeq(SelectSeq(bytes, LAMBDA e : e[1] = tag), LAMBDA e : e[2])

WireScalar(bytes, tag, default) ==
    LET vs == WireValues(bytes, tag) IN
    IF vs = <<>> THEN default ELSE vs[Len(vs)]

ParseFromString(bytes) ==
    [Index |-> WireScalar(bytes, "Index", ""),
     Field |-> WireScalar(bytes, "Field", ""),
     Shard |-> WireScalar(bytes, "Shard", 0),
     RowIDs |-> WireValues(bytes, "RowIDs"),
     ColumnIDs |-> WireValues(bytes, "ColumnIDs"),
     RowKeys |-> WireValues(bytes, "RowKeys"),
     ColumnKeys |-> WireValues(bytes, "ColumnKeys"),
     Timestamps |-> WireValues(bytes, "Timestamps")]

ParseValueFromString(bytes) ==
    [Index |-> WireScalar(bytes, "Index", ""),
     Field |-> WireScalar(bytes, "Field", ""),
     Shard |-> WireScalar(bytes, "Shard", 0),
     ColumnIDs |-> WireValues(bytes, "ColumnIDs"),
     ColumnKeys |-> WireValues(bytes, "ColumnKeys"),
     Values |-> WireValues(bytes, "Values")]

(***************************************************************************)
(* client.py: _ImportRequest.to_bitmap and the roaring views.              *)
(***************************************************************************)
DEFAULT_SHARD_WIDTH == 1048576

\* the local shard_width of to_bitmap
BitmapShardWidth == 1048576

\* datetime.utcfromtimestamp(ts): the civil date and hour of epoch second ts
UtcFromTimestamp(ts) ==
    LET days == ts \div 86400
        z    == days + 719468
        era  == z \div 146097
        doe  == z - era * 146097
        yoe  == (doe - doe \div 1460 + doe \div 36524 - doe \div 146096) \div 365
        doy  == doe - (365 * yoe + yoe \div 4 - yoe \div 100)
        mp   == (5 * doy + 2) \div 153
        m    == IF mp < 10 THEN mp + 3 ELSE mp - 9
    IN  [year  |-> yoe + era * 400 + (IF m <= 2 THEN 1 ELSE 0),
         month |-> m,
         day   |-> doy - (153 * mp + 2) \div 5 + 1,
         hour  |-> (ts % 86400) \div 3600]

\* self._time_formats.get(c, ""), as the list of strftime directives
TimeFormatsAllYear(c) ==
    CASE c = "Y" -> <<"%Y">>
      [] c = "M" -> <<"%Y">>
      [] c = "D" -> <<"%Y">>
      [] c = "H" -> <<"%Y">>
      [] OTHER   -> <<>>

TimeFormats(c) ==
    CASE c = "Y" -> <<"%Y">>
      [] c = "M" -> <<"%Y", "%m">>
      [] c = "D" -> <<"%Y", "%m", "%d">>
      [] c = "H" -> <<"%Y", "%m", "%d", "%H">>
      [] OTHER   -> <<>>

\* datetime.strftime(fmt): a view name is the sequence of the numbers its
\* zero-padded digit groups spell ("202003" is <<2020, 3>>, "" is <<>>)
Strftime(dt, fmt) ==
    [i \in DOMAIN fmt |->
        CASE fmt[i] = "%Y" -> dt.year
          [] fmt[i] = "%m" -> dt.month
          [] fmt[i] = "%d" -> dt.day
          [] fmt[i] = "%H" -> dt.hour]

\* b.row_id * shard_width + b.column_id % shard_width
BitOf(b, width) == (b.row_id * width) + (b.column_id % width)

\* bmp = bitmaps.get(view_name); if not bmp: bmp = Bitmap(); ...; bmp.add(bit)
AddToView(bitmaps, view_name, bit) ==
    IF view_name \in DOMAIN bitmaps
        THEN [bitmaps EXCEPT ![view_name] = @ \cup {bit}]
        ELSE [v \in DOMAIN bitmaps \cup {view_name} |->
                IF v = view_name THEN {bit} ELSE bitmaps[v]]

\* the loop "for c in time_quantum" of _field_time_to_roaring
RECURSIVE AddTimeViews(_, _, _, _)
AddTimeViews(bitmaps, time_quantum, b, bit) ==
    IF time_quantum = <<>> THEN bitmaps
    ELSE AddTimeViews(
            AddToView(bitmaps,
                      Strftime(UtcFromTimestamp(b.timestamp),
                               TimeFormats(Head(time_quantum))),
                      bit),
            Tail(time_quantum), b, bit)

\* _field_time_to_roaring: the dict bitmaps after the loop over self.columns
RECURSIVE FieldTimeBitmaps(_, _, _, _)
FieldTimeBitmaps(bitmaps, columns, time_quantum, width) ==
    IF columns = <<>> THEN bitmaps
    ELSE LET b   == Head(columns)
             bit == BitOf(b, width)
         IN  FieldTimeBitmaps(
                AddTimeViews(AddToView(bitmaps, <<>>, bit), time_quantum, b, bit),
                Tail(columns), time_quantum, width)

\* _field_set_to_roaring: the dict bitmaps
FieldSetBitmaps(columns, width) ==
    [v \in {<<>>} |-> {BitOf(columns[i], width) : i \in DOMAIN columns}]

\* _make_roaring_request: internal.ImportRoaringRequest(views, Clear)
MakeRoaringRequest(bitmaps, clear) == [views |-> bitmaps, Clear |-> clear]

\* _ImportRequest.to_bitmap
ToBitmap(r, clear) ==
    LET width == BitmapShardWidth IN
    IF r.field_time_quantum # <<>>
        THEN MakeRoaringRequest(
                FieldTimeBitmaps([v \in {<<>>} |-> {}], r.columns,
                                 r.field_time_quantum, width),
                clear)
        ELSE MakeRoaringRequest(FieldSetBitmaps(r.columns, width), clear)

(***************************************************************************)
(* client.py: _ImportValueRequest.                                         *)
(***************************************************************************)
ImportValueRequest(f, shard, field_values) ==
    [index_name |-> f.index.name,
     field_name |-> f.name,
     shard |-> shard,
     field_values |-> field_values,
     format |-> IF f.index.keys THEN "csv_column_key_value" ELSE "csv_column_id_value"]

\* _ImportValueRequest.to_protobuf: the internal.ImportValueRequest message
ValueToProtobuf(r) ==
    CASE r.format = "csv_column_id_value" ->
            [Index |-> r.index_name, Field |-> r.field_name, Shard |-> r.shard,
             ColumnIDs |-> MapSeq(r.field_values, LAMBDA fv : fv.column_id),
             ColumnKeys |-> <<>>,
             Values |-> MapSeq(r.field_values, LAMBDA fv : fv.value)]
      [] r.format = "csv_column_key_value" ->
            [Index |-> r.index_name, Field |-> r.field_name, Shard |-> r.shard,
             ColumnIDs |-> <<>>,
             ColumnKeys |-> MapSeq(r.field_values, LAMBDA fv : fv.column_key),
             Values |-> MapSeq(r.field_values, LAMBDA fv : fv.value)]
      [] OTHER -> PilosaError

(***************************************************************************)
(* SpecEncode: _ImportRequest(field, shard, columns) and then either       *)
(* .to_protobuf() or, for the id/id format, .to_bitmap(clear).             *)
(***************************************************************************)
EncRowIds     == {0, 1}
EncColumnIds  == {1048577, 1048579}
EncKeys       == {"a", "b"}
\* 2020-03-15T10:00:00Z, 2020-03-15T11:00:00Z, 2020-12-31T23:59:59Z
EncTimestamps == {1584266400, 1584270000, 1609459199}

\* the records a reader built with the format's csv_* function produces
RecordsOf(format, rowIds, columnIds, keys, timestamps) ==
    CASE format = "csv_row_id_column_id" ->
            {Column(r, c, "", "", t) : r \in rowIds, c \in columnIds, t \in timestamps}
      [] format = "csv_row_id_column_key" ->
            {Column(r, 0, "", c, t) : r \in rowIds, c \in keys, t \in timestamps}
      [] format = "csv_row_key_column_id" ->
            {Column(0, c, r, "", t) : r \in keys, c \in columnIds, t \in timestamps}
      [] format = "csv_row_key_column_key" ->
            {Column(0, 0, r, c, t) : r \in keys, c \in keys, t \in timestamps}

EncFields ==
    {MkField(ik, 0, fk, tq, FALSE, FALSE, FALSE) :
        ik \in BOOLEAN, fk \in BOOLEAN, tq \in TimeQuanta}

InitEncode ==
    /\ field \in EncFields
    /\ opts \in [clear : BOOLEAN]
    /\ \E columns \in SeqsUpTo(RecordsOf(ImportFormat(field), EncRowIds,
                                         EncColumnIds, EncKeys, EncTimestamps),
                               MaxGroupLen) :
          /\ columns # <<>>
          /\ req = ImportRequest(field, ShardOf(columns[1], DEFAULT_SHARD_WIDTH),
                                 columns)
    /\ wire = None
    /\ pc = "encode"
    /\ reader = <<>> /\ taken = <<>> /\ batch_size = 1 /\ shard_width = 1
    /\ bit_groups = <<>> /\ emitted = <<>>
    /\ client = None /\ cur = None /\ nodes = <<>>
    /\ node_i = 0 /\ nclient = None /\ http = None /\ raised = NoError
    /\ sent = <<>> /\ lookups = <<>>
    /\ IdlePool /\ IdleReader /\ IdleMore

\* data = import_request.to_protobuf()
EncodeProtobuf ==
    /\ pc = "encode"
    /\ wire' = [kind |-> "protobuf", data |-> SerializeToString(ToProtobuf(req))]
    /\ pc' = "encoded"
    /\ UNCHANGED req

\* data = import_request.to_bitmap(clear), which the client calls only for
\* requests of format csv_row_id_column_id
EncodeBitmap ==
    /\ pc = "encode"
    /\ req.format = "csv_row_id_column_id"
    /\ wire' = [kind |-> "roaring", data |-> ToBitmap(req, opts.clear)]
    /\ pc' = "encoded"
    /\ UNCHANGED req

NextEncode ==
    \/ EncodeProtobuf
         /\ UNCHANGED <<batchData, importVars, poolVars, readerVars, moreVars>>
    \/ EncodeBitmap
         /\ UNCHANGED <<batchData, importVars, poolVars, readerVars, moreVars>>

SpecEncode == InitEncode /\ [][NextEncode]_vars

(***************************************************************************)
(* C5: in a row-oriented request encoded from a non-empty record group     *)
(* exactly one of RowIDs / RowKeys and exactly one of ColumnIDs /          *)
(* ColumnKeys is non-empty; RowKeys is the populated one exactly when the  *)
(* field uses keys, ColumnKeys exactly when the index uses keys.           *)
(***************************************************************************)
C5_KeyModeExclusive ==
    (pc = "encoded" /\ wire.kind = "protobuf") =>
        LET m == ParseFromString(wire.data) IN
        /\ (m.RowIDs # <<>>) # (m.RowKeys # <<>>)
        /\ (m.ColumnIDs # <<>>) # (m.ColumnKeys # <<>>)
        /\ (m.RowKeys # <<>>) <=> field.keys
        /\ (m.ColumnKeys # <<>>) <=> field.index.keys

C5_Witness ==
    /\ pc = "encoded" /\ wire.kind = "protobuf"
    /\ field.keys /\ ~field.index.keys
    /\ Len(req.columns) = 2
    /\ Len(ParseFromString(wire.data).RowKeys) = 2
    /\ Len(ParseFromString(wire.data).ColumnIDs) = 2

(***************************************************************************)
(* C6: encoding a row-oriented request and decoding it gives back, for     *)
(* each of the four formats, a row array, a column array and a Timestamps  *)
(* array as long as the record group, whose i-th entries are the row, the  *)
(* column and the timestamp of the i-th record handed to the encoder.      *)
(***************************************************************************)
C6_RoundTrip ==
    (pc = "encoded" /\ wire.kind = "protobuf") =>
        LET m    == ParseFromString(wire.data)
            cols == req.columns
            rows_are_keys == req.format \in {"csv_row_key_column_id",
                                             "csv_row_key_column_key"}
            cols_are_keys == req.format \in {"csv_row_id_column_key",
                                             "csv_row_key_column_key"}
            rowArr == IF rows_are_keys THEN m.RowKeys ELSE m.RowIDs
            colArr == IF cols_are_keys THEN m.ColumnKeys ELSE m.ColumnIDs
        IN
        /\ Len(rowArr) = Len(cols)
        /\ Len(colArr) = Len(cols)
        /\ Len(m.Timestamps) = Len(cols)
        /\ \A i \in DOMAIN cols :
              /\ rowArr[i] = IF rows_are_keys THEN cols[i].row_key ELSE cols[i].row_id
              /\ colArr[i] = IF cols_are_keys THEN cols[i].column_key
                             ELSE cols[i].column_id
              /\ m.Timestamps[i] = cols[i].timestamp
        /\ m.Index = field.index.name /\ m.Field = field.name /\ m.Shard = req.shard

C6_Witness ==
    /\ pc = "encoded" /\ wire.kind = "protobuf"
    /\ req.format = "csv_row_key_column_key"
    /\ Len(req.columns) = 2
    /\ req.columns[1] # req.columns[2]
    /\ ParseFromString(wire.data).Timestamps =
          <<req.columns[1].timestamp, req.columns[2].timestamp>>
    /\ ParseFromString(wire.data).RowKeys = <<"b", "a">>

(***************************************************************************)
(* C7: in a fast-path request for a field with a time quantum the standard *)
(* view "" exists and holds the bit of every record; for every record and  *)
(* every character c of the quantum the record's bit is in the view named  *)
(* by the record's timestamp in c's format (Y, YM, YMD, YMDH); no view     *)
(* holds a bit that no record of the group gives that view; quantum "YM"   *)
(* with one record gives exactly the views "", year and year-month.        *)
(***************************************************************************)
ViewNameFor(c, ts) ==
    LET dt == UtcFromTimestamp(ts) IN
    CASE c = "Y" -> <<dt.year>>
      [] c = "M" -> <<dt.year, dt.month>>
      [] c = "D" -> <<dt.year, dt.month, dt.day>>
      [] c = "H" -> <<dt.year, dt.month, dt.day, dt.hour>>

C7_TimeQuantumFanOut ==
    (pc = "encoded" /\ wire.kind = "roaring" /\ field.time_quantum # <<>>) =>
        LET views == wire.data.views
            tq    == field.time_quantum
            cols  == req.columns
            bit(i) == BitOf(cols[i], BitmapShardWidth)
        IN
        /\ <<>> \in DOMAIN views
        /\ \A i \in DOMAIN cols : bit(i) \in views[<<>>]
        /\ \A i \in DOMAIN cols : \A k \in DOMAIN tq :
              /\ ViewNameFor(tq[k], cols[i].timestamp) \in DOMAIN views
              /\ bit(i) \in views[ViewNameFor(tq[k], cols[i].timestamp)]
        /\ \A v \in DOMAIN views : \A x \in views[v] :
              \E i \in DOMAIN cols :
                  /\ x = bit(i)
                  /\ \/ v = <<>>
                     \/ \E k \in DOMAIN tq : v = ViewNameFor(tq[k], cols[i].timestamp)
        /\ (tq = <<"Y", "M">> /\ Len(cols) = 1) =>
              /\ Cardinality(DOMAIN views) = 3
              /\ \A v \in DOMAIN views : views[v] = {bit(1)}
              /\ (cols[1].timestamp = 1584266400) =>
                    DOMAIN views = {<<>>, <<2020>>, <<2020, 3>>}

C7_Witness ==
    /\ pc = "encoded" /\ wire.kind = "roaring"
    /\ field.time_quantum = <<"Y", "M">>
    /\ Len(req.columns) = 1
    /\ req.columns[1].timestamp = 1584266400
    /\ DOMAIN wire.data.views = {<<>>, <<2020>>, <<2020, 3>>}

(***************************************************************************)
(* client.py: URI, _Node, Cluster.                                         *)
(***************************************************************************)
\* URI(scheme, host, port)
URI(scheme, host, port) == [scheme |-> scheme, host |-> host, port |-> port]

\* _Node(scheme, host, port); port is 0 for the falsy port "" that
\* node_dict.get("port", "") gives when the server's JSON has none
Node(scheme, host, port) == [scheme |-> scheme, host |-> host, port |-> port]

\* _Node.from_uri
NodeFromUri(uri) == Node(uri.scheme, uri.host, uri.port)

\* _Node.url: "scheme://host:port", or "scheme://host" when port is falsy;
\* an address is the record of its parts, "" (0 for the port) for a part it
\* does not have
NodeUrl(node) ==
    [scheme |-> node.scheme, host |-> node.host,
     port |-> IF node.port = 0 THEN 0 ELSE node.port]

\* URI.address: the defaults http, localhost, 10101 for the parts left out
URIAddress(address) ==
    URI(IF address.scheme = "" THEN "http" ELSE address.scheme,
        IF address.host = "" THEN "localhost" ELSE address.host,
        IF address.port = 0 THEN 10101 ELSE address.port)

\* URI._normalize: the scheme is cut at its "+"
Normalize(uri) ==
    [scheme |-> CASE uri.scheme = "http+protobuf"  -> "http"
                  [] uri.scheme = "https+protobuf" -> "https"
                  [] OTHER -> uri.scheme,
     host |-> uri.host, port |-> uri.port]

\* Cluster(*hosts)
ClusterOf(hosts) == [i \in DOMAIN hosts |-> <<hosts[i], TRUE>>]

\* Cluster.add_host: the first entry for the URI is marked available, or
\* the URI is appended
AddHost(hosts, uri) ==
    LET found == {i \in DOMAIN hosts : hosts[i][1] = uri} IN
    IF found = {} THEN Append(hosts, <<uri, TRUE>>)
    ELSE LET i == CHOOSE k \in found : \A j \in found : k <= j
         IN  [hosts EXCEPT ![i] = <<hosts[i][1], TRUE>>]

\* Cluster.remove_host
RemoveHostNone(hosts, uri) == hosts

RemoveHost(hosts, uri) ==
    [i \in DOMAIN hosts |->
        IF hosts[i][1] = uri THEN <<hosts[i][1], FALSE>> ELSE hosts[i]]

\* Cluster.get_host: the first available host, None when it raises
GetHostLast(hosts) ==
    LET ok == {i \in DOMAIN hosts : hosts[i][2]} IN
    IF ok = {} THEN None
    ELSE hosts[CHOOSE i \in ok : \A j \in ok : i >= j][1]

GetHost(hosts) ==
    LET ok == {i \in DOMAIN hosts : hosts[i][2]} IN
    IF ok = {} THEN None
    ELSE hosts[CHOOSE i \in ok : \A j \in ok : i <= j][1]

\* Cluster._reset
Reset(hosts) == [i \in DOMAIN hosts |-> <<hosts[i][1], TRUE>>]

\* Client(cluster_or_uri, use_manual_address=...), lines 116-148, for a URI
\* or an address
NewClient(uri, use_manual_address) ==
    IF use_manual_address
        THEN [use_manual_address |-> TRUE, cluster |-> None, current_host |-> uri]
        ELSE [use_manual_address |-> FALSE, cluster |-> ClusterOf(<<uri>>),
              current_host |-> None]

\* Client(cluster) for a Cluster: the client works on a copy
NewClusterClient(hosts) ==
    [use_manual_address |-> FALSE, cluster |-> hosts, current_host |-> None]

_MAX_HOSTS == 10

(***************************************************************************)
(* client.py: Client._import_data, the parts without I/O.                  *)
(***************************************************************************)
\* the key of data.sort: (col.row_id, col.column_id)
SortKeyLess(a, b) ==
    \/ a.row_id < b.row_id
    \/ a.row_id = b.row_id /\ a.column_id < b.column_id

RECURSIVE InsertSorted(_, _)
InsertSorted(sorted, x) ==
    IF sorted = <<>> THEN <<x>>
    ELSE IF SortKeyLess(x, Head(sorted)) THEN <<x>> \o sorted
    ELSE <<Head(sorted)>> \o InsertSorted(Tail(sorted), x)

\* list.sort(key=...): stable, ascending
RECURSIVE SortByRowColumn(_)
SortByRowColumn(data) ==
    IF data = <<>> THEN <<>>
    ELSE InsertSorted(SortByRowColumn(SubSeq(data, 1, Len(data) - 1)),
                      data[Len(data)])

\* lines 337-340
SortedDataUnsorted(f, data) == data

SortedData(f, data) ==
    IF FieldType(f) # "int" /\ ~f.index.keys THEN SortByRowColumn(data) ELSE data

\* line 344: the coordinator is asked for
NeedsCoordinatorIndexOnly(f) == f.index.keys

NeedsCoordinator(f) == f.index.keys \/ f.keys

\* line 364: the fast path is taken
UseFastImportAnyFormat(f, fast_import, r) ==
    fast_import /\ FieldType(f) \in {"set", "bool", "time"}

UseFastImport(f, fast_import, r) ==
    /\ fast_import
    /\ FieldType(f) \in {"set", "bool", "time"}
    /\ r.format = "csv_row_id_column_id"

\* the paths of the four requests, as the record of what they are made of
\* _fetch_fragment_nodes, line 370
FragmentNodesPath(index_name, shard) ==
    [kind |-> "fragment_nodes", shard |-> shard, index |-> index_name]

\* _fetch_coordinator_node, line 381
StatusPath == [kind |-> "status"]

\* _import_node, lines 396-397
ImportPath(r, clear) ==
    [kind |-> "import", index |-> r.index_name, field |-> r.field_name,
     clear |-> clear]

\* _import_node_fast, lines 406-407
ImportRoaringPath(r) ==
    [kind |-> "import-roaring", index |-> r.index_name, field |-> r.field_name,
     shard |-> r.shard]

\* lines 360-367 with _import_node / _import_node_fast up to the request:
\* the method, path and body posted to one node
NodeRequest(f, shard, data, fast_import, clear) ==
    IF FieldType(f) = "int"
        THEN LET r == ImportValueRequest(f, shard, data) IN
             [method |-> "POST", path |-> ImportPath(r, clear),
              data |-> SerializeToString(ValueToProtobuf(r))]
        ELSE LET r == ImportRequest(f, shard, data) IN
             IF UseFastImport(f, fast_import, r)
                THEN [method |-> "POST", path |-> ImportRoaringPath(r),
                      data |-> ToBitmap(r, clear)]
                ELSE [method |-> "POST", path |-> ImportPath(r, clear),
                      data |-> SerializeToString(ToProtobuf(r))]

\* _fetch_coordinator_node, lines 384-388: the first node of the /status
\* list that reports isCoordinator, None when the method raises
CoordinatorOfLast(status_nodes) ==
    LET co == {i \in DOMAIN status_nodes : status_nodes[i].isCoordinator} IN
    IF co = {} THEN None
    ELSE LET i == CHOOSE k \in co : \A j \in co : k >= j IN
         Node(status_nodes[i].uri.scheme, status_nodes[i].uri.host,
              status_nodes[i].uri.port)

CoordinatorOf(status_nodes) ==
    LET co == {i \in DOMAIN status_nodes : status_nodes[i].isCoordinator} IN
    IF co = {} THEN None
    ELSE LET i == CHOOSE k \in co : \A j \in co : k <= j IN
         Node(status_nodes[i].uri.scheme, status_nodes[i].uri.host,
              status_nodes[i].uri.port)

\* _fetch_fragment_nodes, lines 374-378
FragmentNodesOf(node_dicts) ==
    [i \in DOMAIN node_dicts |->
        Node(node_dicts[i].uri.scheme, node_dicts[i].uri.host, node_dicts[i].uri.port)]

(***************************************************************************)
(* client.py: Client._import_data and Client.__http_request, one action    *)
(* per pass of the loop of __http_request.                                 *)
(***************************************************************************)
\* the client whose __http_request is running
HttpClient == IF http.who = "self" THEN client ELSE nclient

SetHttpClient(c) ==
    IF http.who = "self"
        THEN client' = c /\ nclient' = nclient
        ELSE nclient' = c /\ client' = client

\* __get_address, lines 445-446: the client after the current host is set
WithCurrentHost(c) ==
    IF c.current_host = None
        THEN [c EXCEPT !.current_host = GetHost(c.cluster)]
        ELSE c

\* __get_address raises: there is no current host and get_host finds none
NoHost(c) == c.current_host = None /\ GetHost(c.cluster) = None

\* one entry of the history of HTTP attempts
SentEntry(c, outcome, response) ==
    [who |-> http.who, g |-> Len(emitted), method |-> http.method,
     address |-> Normalize(c.current_host), path |-> http.path,
     data |-> http.data, outcome |-> outcome, response |-> response]

NewRequest(who, purpose, method, path, data) ==
    [who |-> who, purpose |-> purpose, method |-> method, path |-> path,
     data |-> data, tries |-> 0]

\* lines 337-342, use_manual_address: no lookup
ImportDataManual ==
    /\ pc = "body"
    /\ client.use_manual_address
    /\ cur' = [shard |-> emitted[Len(emitted)][1],
               data |-> SortedData(field, emitted[Len(emitted)][2])]
    /\ nodes' = <<NodeFromUri(client.current_host)>>
    /\ node_i' = 1
    /\ pc' = "nodes"
    /\ UNCHANGED <<field, opts, client, nclient, http, raised, sent, lookups>>

\* lines 337-345: index or field with keys, _fetch_coordinator_node starts
ImportDataCoordinator ==
    /\ pc = "body"
    /\ ~client.use_manual_address
    /\ NeedsCoordinator(field)
    /\ cur' = [shard |-> emitted[Len(emitted)][1],
               data |-> SortedData(field, emitted[Len(emitted)][2])]
    /\ lookups' = Append(lookups, [g |-> Len(emitted),
                                   symbol |-> "_fetch_coordinator_node"])
    /\ http' = NewRequest("self", "coordinator", "GET", StatusPath, <<>>)
    /\ pc' = "http"
    /\ UNCHANGED <<field, opts, client, nodes, node_i, nclient, raised, sent>>

\* lines 337-347: no keys, _fetch_fragment_nodes starts
ImportDataFragmentNodes ==
    /\ pc = "body"
    /\ ~client.use_manual_address
    /\ ~NeedsCoordinator(field)
    /\ cur' = [shard |-> emitted[Len(emitted)][1],
               data |-> SortedData(field, emitted[Len(emitted)][2])]
    /\ lookups' = Append(lookups, [g |-> Len(emitted),
                                   symbol |-> "_fetch_fragment_nodes",
                                   index |-> field.index.name,
                                   shard |-> emitted[Len(emitted)][1]])
    /\ http' = NewRequest("self", "fragment_nodes", "GET",
                          FragmentNodesPath(field.index.name,
                                            emitted[Len(emitted)][1]),
                          <<>>)
    /\ pc' = "http"
    /\ UNCHANGED <<field, opts, client, nodes, node_i, nclient, raised, sent>>

\* lines 358-367 and 390-408: the next node of the list gets its own Client
\* and the request is built
ImportNodeBeginReversed ==
    /\ pc = "nodes"
    /\ node_i <= Len(nodes)
    /\ nclient' = NewClient(URIAddress(NodeUrl(nodes[(Len(nodes) - node_i) + 1])),
                            client.use_manual_address)
    /\ LET r == NodeRequest(field, cur.shard, cur.data, opts.fast_import, opts.clear)
       IN  http' = NewRequest("node", "import", r.method, r.path, r.data)
    /\ pc' = "http"
    /\ UNCHANGED <<field, opts, client, cur, nodes, node_i, raised, sent, lookups>>

ImportNodeBegin ==
    /\ pc = "nodes"
    /\ node_i <= Len(nodes)
    /\ nclient' = NewClient(URIAddress(NodeUrl(nodes[node_i])),
                            client.use_manual_address)
    /\ LET r == NodeRequest(field, cur.shard, cur.data, opts.fast_import, opts.clear)
       IN  http' = NewRequest("node", "import", r.method, r.path, r.data)
    /\ pc' = "http"
    /\ UNCHANGED <<field, opts, client, cur, nodes, node_i, raised, sent, lookups>>

\* line 358: the list of nodes is exhausted, _import_data returns and
\* import_field asks batch_columns for the next group
ImportDataReturn ==
    /\ pc = "nodes"
    /\ node_i > Len(nodes)
    /\ pc' = Resume
    /\ UNCHANGED importVars

\* line 423 raises: Cluster.get_host resets the cluster and raises PilosaError
HttpNoHost ==
    /\ pc = "http"
    /\ NoHost(HttpClient)
    /\ SetHttpClient([HttpClient EXCEPT !.cluster = Reset(@)])
    /\ raised' = "PilosaError"
    /\ pc' = "raised"
    /\ UNCHANGED <<field, opts, cur, nodes, node_i, http, sent, lookups>>

\* lines 423-438: the attempt ends in urllib3's MaxRetryError
HttpMaxRetryError ==
    /\ pc = "http"
    /\ ~NoHost(HttpClient)
    /\ LET c == WithCurrentHost(HttpClient) IN
        /\ sent' = Append(sent, SentEntry(c, "MaxRetryError", <<>>))
        /\ SetHttpClient(IF c.use_manual_address THEN c
                         ELSE [c EXCEPT !.cluster = RemoveHost(@, c.current_host),
                                        !.current_host = None])
    /\ http' = [http EXCEPT !.tries = @ + 1]
    /\ IF http.tries + 1 = _MAX_HOSTS
          THEN raised' = "PilosaError" /\ pc' = "raised"
          ELSE raised' = raised /\ pc' = "http"
    /\ UNCHANGED <<field, opts, cur, nodes, node_i, lookups>>

\* lines 423-427 and 440-442: a response whose status is not 2xx
HttpServerErrorIgnored ==
    /\ pc = "http"
    /\ ~NoHost(HttpClient)
    /\ LET c == WithCurrentHost(HttpClient) IN
        /\ sent' = Append(sent, SentEntry(c, "non2xx", <<>>))
        /\ SetHttpClient(c)
    /\ IF http.purpose = "import"
          THEN raised' = raised /\ pc' = "nodes" /\ node_i' = node_i + 1
          ELSE raised' = "PilosaServerError" /\ pc' = "raised" /\ node_i' = node_i
    /\ UNCHANGED <<field, opts, cur, nodes, http, lookups>>

HttpServerError ==
    /\ pc = "http"
    /\ ~NoHost(HttpClient)
    /\ LET c == WithCurrentHost(HttpClient) IN
        /\ sent' = Append(sent, SentEntry(c, "non2xx", <<>>))
        /\ SetHttpClient(c)
    /\ raised' = "PilosaServerError"
    /\ pc' = "raised"
    /\ UNCHANGED <<field, opts, cur, nodes, node_i, http, lookups>>

\* the JSON bodies the server may answer with
N1 == Node("http", "n1", 10101)
N2 == Node("https", "n2", 10102)
N2NoPort == Node("https", "n2", 0)

FragmentResponses == {<<>>, <<[uri |-> N1]>>, <<[uri |-> N1], [uri |-> N2NoPort]>>}

StatusResponses ==
    {<<>>,
     <<[uri |-> N1, isCoordinator |-> FALSE]>>,
     <<[uri |-> N1, isCoordinator |-> TRUE]>>,
     <<[uri |-> N1, isCoordinator |-> FALSE], [uri |-> N2, isCoordinator |-> TRUE]>>,
     <<[uri |-> N2, isCoordinator |-> TRUE], [uri |-> N1, isCoordinator |-> TRUE]>>}

\* a 2xx response to GET /internal/fragment/nodes: _fetch_fragment_nodes
\* returns the nodes of the answer (lines 372-378)
HttpFragmentNodesOk ==
    /\ pc = "http"
    /\ http.purpose = "fragment_nodes"
    /\ ~NoHost(HttpClient)
    /\ \E response \in FragmentResponses :
        LET c == WithCurrentHost(HttpClient) IN
        /\ sent' = Append(sent, SentEntry(c, "2xx", response))
        /\ SetHttpClient(c)
        /\ nodes' = FragmentNodesOf(response)
    /\ node_i' = 1
    /\ pc' = "nodes"
    /\ UNCHANGED <<field, opts, cur, http, raised, lookups>>

\* a 2xx response to GET /status: _fetch_coordinator_node returns the
\* coordinator or raises PilosaServerError (lines 382-388)
HttpStatusOk ==
    /\ pc = "http"
    /\ http.purpose = "coordinator"
    /\ ~NoHost(HttpClient)
    /\ \E response \in StatusResponses :
        LET c  == WithCurrentHost(HttpClient)
            co == CoordinatorOf(response)
        IN
        /\ sent' = Append(sent, SentEntry(c, "2xx", response))
        /\ SetHttpClient(c)
        /\ IF co = None
              THEN /\ raised' = "PilosaServerError"
                   /\ pc' = "raised"
                   /\ UNCHANGED <<nodes, node_i>>
              ELSE /\ nodes' = <<co>>
                   /\ node_i' = 1
                   /\ pc' = "nodes"
                   /\ raised' = raised
    /\ UNCHANGED <<field, opts, cur, http, lookups>>

\* a 2xx response to the POST: the loop of line 358 goes to the next node
HttpImportOk ==
    /\ pc = "http"
    /\ http.purpose = "import"
    /\ ~NoHost(HttpClient)
    /\ LET c == WithCurrentHost(HttpClient) IN
        /\ sent' = Append(sent, SentEntry(c, "2xx", <<>>))
        /\ SetHttpClient(c)
    /\ node_i' = node_i + 1
    /\ pc' = "nodes"
    /\ UNCHANGED <<field, opts, cur, nodes, http, raised, lookups>>

(***************************************************************************)
(* SpecImport: Client.import_field(field, bit_reader, batch_size,          *)
(* fast_import, clear).                                                    *)
(***************************************************************************)
MaxImportBatch == 2

ImportIndexWidths == {0, 2097152}
ImportRowIds      == {0, 1}
ImportColumnIds   == {3, 1048579}
ImportKeys        == {"a"}
ImportTimestamps  == {1584266400}
ImportValues      == {7}

\* set, int, time, mutex and bool fields
ImportFields ==
    {MkField(ik, w, fk, k[1], k[2], k[3], k[4]) :
        ik \in BOOLEAN, w \in ImportIndexWidths, fk \in BOOLEAN,
        k \in {<<TimeQuantumNONE, FALSE, FALSE, FALSE>>,
               <<TimeQuantumNONE, TRUE, FALSE, FALSE>>,
               <<<<"Y", "M">>, FALSE, FALSE, FALSE>>,
               <<TimeQuantumNONE, FALSE, TRUE, FALSE>>,
               <<TimeQuantumNONE, FALSE, FALSE, TRUE>>}}

\* the records a reader made for the field produces: csv_field_value_reader
\* for an int field, csv_column_reader otherwise, with the field's format
ImportRecords(f) ==
    IF FieldType(f) = "int"
        THEN IF f.index.keys
                THEN {FieldValue(0, k, v) : k \in ImportKeys, v \in ImportValues}
                ELSE {FieldValue(c, "", v) : c \in ImportColumnIds, v \in ImportValues}
        ELSE RecordsOf(ImportFormat(f), ImportRowIds, ImportColumnIds, ImportKeys,
                       ImportTimestamps)

H1 == URI("http", "h1", 10101)
H2 == URI("http+protobuf", "h2", 10101)

\* line 318
ImportShardWidth(f) ==
    IF f.index.shard_width # 0 THEN f.index.shard_width ELSE DEFAULT_SHARD_WIDTH

InitImport ==
    /\ field \in ImportFields
    /\ opts \in [fast_import : BOOLEAN, clear : BOOLEAN]
    /\ client \in {NewClient(H1, TRUE), NewClusterClient(ClusterOf(<<H1, H2>>))}
    /\ reader \in SeqsUpTo(ImportRecords(field), MaxImportLen)
    /\ batch_size \in 1..MaxImportBatch
    /\ shard_width = ImportShardWidth(field)
    /\ taken = <<>> /\ bit_groups = <<>> /\ emitted = <<>>
    /\ pc = "pull"
    /\ cur = None /\ nodes = <<>> /\ node_i = 0 /\ nclient = None
    /\ http = None /\ raised = NoError /\ sent = <<>> /\ lookups = <<>>
    /\ IdleEnc /\ IdlePool /\ IdleReader /\ IdleMore

NextImport ==
    \/ BatchPull /\ UNCHANGED <<importVars, encVars, readerVars, moreVars, poolVars>>
    \/ BatchYield /\ UNCHANGED <<importVars, encVars, readerVars, moreVars, poolVars>>
    \/ ImportDataManual /\ UNCHANGED <<batchData, encVars, readerVars, moreVars, poolVars>>
    \/ ImportDataCoordinator /\ UNCHANGED <<batchData, encVars, readerVars, moreVars, poolVars>>
    \/ ImportDataFragmentNodes /\ UNCHANGED <<batchData, encVars, readerVars, moreVars, poolVars>>
    \/ ImportNodeBegin /\ UNCHANGED <<batchData, encVars, readerVars, moreVars, poolVars>>
    \/ ImportDataReturn
         /\ UNCHANGED <<batchData, encVars, readerVars, moreVars, poolVars>>
    \/ HttpNoHost /\ UNCHANGED <<batchData, encVars, readerVars, moreVars, poolVars>>
    \/ HttpMaxRetryError
         /\ UNCHANGED <<batchData, encVars, readerVars, moreVars, poolVars>>
    \/ HttpServerError
         /\ UNCHANGED <<batchData, encVars, readerVars, moreVars, poolVars>>
    \/ HttpFragmentNodesOk
         /\ UNCHANGED <<batchData, encVars, readerVars, moreVars, poolVars>>
    \/ HttpStatusOk
         /\ UNCHANGED <<batchData, encVars, readerVars, moreVars, poolVars>>
    \/ HttpImportOk
         /\ UNCHANGED <<batchData, encVars, readerVars, moreVars, poolVars>>

SpecImport == InitImport /\ [][NextImport]_vars

(***************************************************************************)
(* Views of the history of SpecImport.                                     *)
(***************************************************************************)
\* _import_data has begun for the g-th emitted group
Started(g) == g \in DOMAIN emitted /\ (g < Len(emitted) \/ pc # "body")

UsesKeys == field.index.keys \/ field.keys

\* the import POSTs among the attempts
IsPost(i) == sent[i].who = "node"

\* the address _import_data gives the Client of a node
NodeAddress(node) == Normalize(URIAddress(NodeUrl(node)))

\* the answered lookup a POST of group g rests on: the last 2xx answer to the
\* calling client's request of that group before attempt i
LookupBefore(i) ==
    LET js == {j \in 1..(i - 1) : /\ sent[j].who = "self"
                                  /\ sent[j].g = sent[i].g
                                  /\ sent[j].outcome = "2xx"}
    IN  IF js = {} THEN 0 ELSE CHOOSE j \in js : \A k \in js : k <= j

(***************************************************************************)
(* C2 as stated: whenever the index or the field uses keys, every group's  *)
(* destination is resolved by _fetch_coordinator_node and                  *)
(* _fetch_fragment_nodes is never called; when neither uses keys, by       *)
(* _fetch_fragment_nodes for the group's index and shard.                  *)
(***************************************************************************)
LookupsMatchKeys ==
    /\ \A g \in DOMAIN emitted : Started(g) =>
          IF UsesKeys
             THEN \E i \in DOMAIN lookups :
                     lookups[i] = [g |-> g, symbol |-> "_fetch_coordinator_node"]
             ELSE \E i \in DOMAIN lookups :
                     lookups[i] = [g |-> g, symbol |-> "_fetch_fragment_nodes",
                                   index |-> field.index.name,
                                   shard |-> emitted[g][1]]
    /\ UsesKeys =>
          \A i \in DOMAIN lookups : lookups[i].symbol # "_fetch_fragment_nodes"
    /\ ~UsesKeys =>
          \A i \in DOMAIN lookups : lookups[i].symbol # "_fetch_coordinator_node"

C2_LookupByKeys == LookupsMatchKeys

(***************************************************************************)
(* C2 amended: for a client that does not use a manual address the lookups *)
(* are as C2 states, one per group, and every POST of a group goes to a    *)
(* node of the answer to that group's lookup (the coordinator of the       *)
(* /status answer, a node of the fragment-nodes answer for the group's     *)
(* index and shard); a client with use_manual_address calls neither lookup *)
(* and posts every group to its manual address.                            *)
(***************************************************************************)
C2_Resolution ==
    IF client.use_manual_address
       THEN /\ lookups = <<>>
            /\ \A i \in DOMAIN sent :
                  IsPost(i) /\ sent[i].address = Normalize(client.current_host)
       ELSE /\ LookupsMatchKeys
            /\ \A i, j \in DOMAIN lookups : lookups[i].g = lookups[j].g => i = j
            /\ \A i \in DOMAIN sent : IsPost(i) =>
                  LET j == LookupBefore(i) IN
                  /\ j # 0
                  /\ IF UsesKeys
                        THEN /\ sent[j].path = StatusPath
                             /\ sent[i].address =
                                    NodeAddress(CoordinatorOf(sent[j].response))
                        ELSE /\ sent[j].path =
                                    FragmentNodesPath(field.index.name,
                                                      emitted[sent[i].g][1])
                             /\ \E n \in Range(FragmentNodesOf(sent[j].response)) :
                                    sent[i].address = NodeAddress(n)

C2_Witness ==
    /\ ~client.use_manual_address
    /\ field.index.keys /\ ~field.keys
    /\ Len(lookups) = 2
    /\ \E i \in DOMAIN sent :
          /\ IsPost(i) /\ sent[i].outcome = "2xx" /\ sent[i].g = 2
          /\ sent[i].address = NodeAddress(N2)

(***************************************************************************)
(* C3: the import-roaring request is posted for a group only if            *)
(* fast_import is true, the field type is set, bool or time and neither    *)
(* the index nor the field uses keys; in every other case the              *)
(* row-oriented import request is posted.                                  *)
(***************************************************************************)
C3_FastPathOnlyWithoutKeys ==
    \A i \in DOMAIN sent : IsPost(i) =>
        LET fast == /\ opts.fast_import
                    /\ FieldType(field) \in {"set", "bool", "time"}
                    /\ ~field.index.keys
                    /\ ~field.keys
        IN  /\ sent[i].method = "POST"
            /\ sent[i].path.kind = IF fast THEN "import-roaring" ELSE "import"
            /\ fast => DOMAIN sent[i].data = {"views", "Clear"}
            /\ ~fast => \E k \in DOMAIN sent[i].data : sent[i].data[k][1] = "Field"

C3_Witness ==
    /\ opts.fast_import
    /\ FieldType(field) = "time"
    /\ field.keys /\ ~field.index.keys
    /\ \E i \in DOMAIN sent :
          /\ IsPost(i) /\ sent[i].path.kind = "import"
          /\ Len(ParseFromString(sent[i].data).RowKeys) = 2

(***************************************************************************)
(* C4: for a non-int field whose index and field have no keys, the         *)
(* (RowIDs[i], ColumnIDs[i]) pairs of every request import_field posts are *)
(* non-decreasing in lexicographic order, whatever the order of the        *)
(* records in the reader.                                                  *)
(***************************************************************************)
C4_SortedByRowColumn ==
    (FieldType(field) # "int" /\ ~field.index.keys /\ ~field.keys) =>
        \A i \in DOMAIN sent : (IsPost(i) /\ sent[i].path.kind = "import") =>
            LET m == ParseFromString(sent[i].data) IN
            /\ Len(m.RowIDs) = Len(m.ColumnIDs)
            /\ Len(m.RowIDs) = Len(emitted[sent[i].g][2])
            /\ \A k \in 1..(Len(m.RowIDs) - 1) :
                  \/ m.RowIDs[k] < m.RowIDs[k + 1]
                  \/ /\ m.RowIDs[k] = m.RowIDs[k + 1]
                     /\ m.ColumnIDs[k] <= m.ColumnIDs[k + 1]

C4_Witness ==
    /\ FieldType(field) = "mutex" /\ ~field.index.keys /\ ~field.keys
    /\ \E i \in DOMAIN sent :
          /\ IsPost(i) /\ sent[i].path.kind = "import"
          /\ emitted[sent[i].g][2][1].row_id = 1
          /\ emitted[sent[i].g][2][1].column_id = 3
          /\ ParseFromString(sent[i].data).RowIDs = <<0, 1>>
          /\ ParseFromString(sent[i].data).ColumnIDs = <<1048579, 3>>

(***************************************************************************)
(* C8: in the fast path every record is mapped to the bit                  *)
(* row_id * shard_width + (column_id mod shard_width), shard_width being   *)
(* the width import_field partitioned the records with, so that            *)
(* column_id mod shard_width is the record's offset in the shard named in  *)
(* the request path.                                                       *)
(***************************************************************************)
C8_BitPosition ==
    \A i \in DOMAIN sent : (IsPost(i) /\ sent[i].path.kind = "import-roaring") =>
        LET group == emitted[sent[i].g][2] IN
        /\ sent[i].data.views[<<>>] =
              {(group[k].row_id * shard_width) + (group[k].column_id % shard_width) :
                  k \in DOMAIN group}
        /\ \A k \in DOMAIN group :
              group[k].column_id % shard_width =
                  group[k].column_id - (sent[i].path.shard * shard_width)

(***************************************************************************)
(* C9 as stated: a request that got a non-2xx response or a connection     *)
(* failure is the last request of the call (nothing is sent after it) and  *)
(* the call does not return normally.                                      *)
(***************************************************************************)
C9_SingleFailureAborts ==
    /\ \A i \in DOMAIN sent : sent[i].outcome # "2xx" => i = Len(sent)
    /\ pc = "done" => \A i \in DOMAIN sent : sent[i].outcome = "2xx"

(***************************************************************************)
(* C9 amended: a non-2xx response aborts the call at once (import_field    *)
(* raises, nothing is sent after it).  A connection failure                *)
(* (MaxRetryError) of one attempt does not: __http_request repeats the     *)
(* same request, on the next available host of the client's cluster or on  *)
(* the same manual address, at most _MAX_HOSTS attempts in all; the call   *)
(* raises when no attempt succeeds.  Once the call has raised nothing      *)
(* more is sent, and what was sent stays sent.                             *)
(***************************************************************************)
SameRequest(a, b) ==
    /\ a.who = b.who /\ a.g = b.g /\ a.method = b.method
    /\ a.path = b.path /\ a.data = b.data

C9_State ==
    /\ \A i \in DOMAIN sent : sent[i].outcome = "non2xx" =>
          /\ i = Len(sent)
          /\ pc = "raised"
          /\ raised = "PilosaServerError"
    /\ \A i \in DOMAIN sent : (sent[i].outcome = "MaxRetryError" /\ i < Len(sent)) =>
          /\ SameRequest(sent[i], sent[i + 1])
          /\ (sent[i].address = sent[i + 1].address) <=> client.use_manual_address
    /\ \A i \in DOMAIN sent :
          \E k \in 0.._MAX_HOSTS :
              i + k > Len(sent) \/ sent[i + k].outcome # "MaxRetryError"
    /\ (pc = "http" /\ http.tries > 0) =>
          /\ sent[Len(sent)].outcome = "MaxRetryError"
          /\ http.tries < _MAX_HOSTS
    /\ pc = "raised" <=> raised # NoError
    /\ pc = "done" => (sent = <<>> \/ sent[Len(sent)].outcome = "2xx")
    /\ (sent # <<>> /\ sent[Len(sent)].outcome = "MaxRetryError") =>
          pc \in {"http", "raised"}

C9_Step ==
    /\ \E tail \in {<<>>} \cup {<<e>> : e \in Range(sent')} : sent' = sent \o tail
    /\ pc = "raised" => (sent' = sent /\ pc' = "raised")

C9_FailureAborts == [] C9_State /\ [][C9_Step]_vars

C9_Witness ==
    /\ pc = "raised"
    /\ raised = "PilosaServerError"
    /\ \E i \in DOMAIN sent :
          /\ sent[i].outcome = "MaxRetryError"
          /\ i < Len(sent)
          /\ sent[i + 1].outcome = "2xx"
    /\ sent[Len(sent)].who = "node"
    /\ node_i < Len(nodes)
    /\ reader # <<>>

(***************************************************************************)
(* examples/multicol-csv-import/import.py: import_csv and its workers.     *)
(* The queue is queue.Queue(): unbounded, put never blocks, get blocks on  *)
(* an empty queue, join blocks while unfinished_tasks is not 0.            *)
(***************************************************************************)
MaxWorkers == 2
MaxFields  == 3

\* line 164: the item put for the i-th field (fields are numbered from 1)
Item(i) == [field |-> i, row_index |-> i, float_frac |-> 0]

THREAD_COUNT == Len(wpc)

Workers == DOMAIN wpc

\* lines 157-161: one pass of the loop that starts the worker threads
StartThread ==
    /\ mainpc = "start"
    /\ started < THREAD_COUNT
    /\ started' = started + 1
    /\ wpc' = [wpc EXCEPT ![started + 1] = "get"]
    /\ mainpc' = IF started + 1 < THREAD_COUNT THEN "start"
                 ELSE IF to_put = <<>> THEN "join" ELSE "put"
    /\ UNCHANGED <<q, unfinished, to_put, sentinels, joined, witem, processed>>

\* lines 163-164: one pass of the loop that puts the work items
PutItem ==
    /\ mainpc = "put"
    /\ to_put # <<>>
    /\ q' = Append(q, Item(Head(to_put)))
    /\ unfinished' = unfinished + 1
    /\ to_put' = Tail(to_put)
    /\ mainpc' = IF Tail(to_put) = <<>> THEN "join" ELSE "put"
    /\ UNCHANGED <<started, sentinels, joined, wpc, witem, processed>>

\* line 167: q.join() returns once every put has been matched by a task_done
QueueJoinNoWait ==
    /\ mainpc = "join"
    /\ mainpc' = "stop"
    /\ UNCHANGED <<q, unfinished, started, to_put, sentinels, joined, wpc,
                   witem, processed>>

QueueJoin ==
    /\ mainpc = "join"
    /\ unfinished = 0
    /\ mainpc' = "stop"
    /\ UNCHANGED <<q, unfinished, started, to_put, sentinels, joined, wpc,
                   witem, processed>>

\* lines 170-171: one pass of the loop that puts a None per thread
PutSentinel ==
    /\ mainpc = "stop"
    /\ sentinels < THREAD_COUNT
    /\ q' = Append(q, None)
    /\ unfinished' = unfinished + 1
    /\ sentinels' = sentinels + 1
    /\ mainpc' = IF sentinels + 1 < THREAD_COUNT THEN "stop" ELSE "join_threads"
    /\ UNCHANGED <<started, to_put, joined, wpc, witem, processed>>

\* lines 172-173: t.join() returns once the thread has ended, however it ended
JoinThreadNoWait ==
    /\ mainpc = "join_threads"
    /\ joined < THREAD_COUNT
    /\ joined' = joined + 1
    /\ mainpc' = IF joined + 1 < THREAD_COUNT THEN "join_threads" ELSE "done"
    /\ UNCHANGED <<q, unfinished, started, to_put, sentinels, wpc, witem,
                   processed>>

JoinThread ==
    /\ mainpc = "join_threads"
    /\ joined < THREAD_COUNT
    /\ wpc[joined + 1] \in {"exited", "dead"}
    /\ joined' = joined + 1
    /\ mainpc' = IF joined + 1 < THREAD_COUNT THEN "join_threads" ELSE "done"
    /\ UNCHANGED <<q, unfinished, started, to_put, sentinels, wpc, witem,
                   processed>>

\* lines 112-115: q.get(), and the break on None
WorkerGetPeek(w) ==
    /\ wpc[w] = "get"
    /\ q # <<>>
    /\ q' = IF Head(q) = None THEN Tail(q) ELSE q
    /\ IF Head(q) = None
          THEN wpc' = [wpc EXCEPT ![w] = "exited"] /\ witem' = witem
          ELSE /\ wpc' = [wpc EXCEPT ![w] = "work"]
               /\ witem' = [witem EXCEPT ![w] = Head(q)]
    /\ Len(processed) < MaxFields + 1
    /\ UNCHANGED <<unfinished, mainpc, started, to_put, sentinels, joined,
                   processed>>

WorkerGet(w) ==
    /\ wpc[w] = "get"
    /\ q # <<>>
    /\ q' = Tail(q)
    /\ IF Head(q) = None
          THEN wpc' = [wpc EXCEPT ![w] = "exited"] /\ witem' = witem
          ELSE /\ wpc' = [wpc EXCEPT ![w] = "work"]
               /\ witem' = [witem EXCEPT ![w] = Head(q)]
    /\ UNCHANGED <<unfinished, mainpc, started, to_put, sentinels, joined,
                   processed>>

\* lines 116-122: open(path) and client.import_field return
WorkerImportOk(w) ==
    /\ wpc[w] = "work"
    /\ processed' = Append(processed, witem[w])
    /\ wpc' = [wpc EXCEPT ![w] = "task_done"]
    /\ UNCHANGED <<q, unfinished, mainpc, started, to_put, sentinels, joined,
                   witem>>

\* lines 116-122: open(path) or client.import_field raises; nothing in
\* import_field catches it, so the thread ends there, before line 123
WorkerImportRaises(w) ==
    /\ wpc[w] = "work"
    /\ wpc' = [wpc EXCEPT ![w] = "dead"]
    /\ UNCHANGED <<q, unfinished, mainpc, started, to_put, sentinels, joined,
                   witem, processed>>

\* line 123: q.task_done()
WorkerTaskDoneLost(w) ==
    /\ wpc[w] = "task_done"
    /\ witem' = [witem EXCEPT ![w] = None]
    /\ wpc' = [wpc EXCEPT ![w] = "get"]
    /\ UNCHANGED <<q, unfinished, mainpc, started, to_put, sentinels, joined, processed>>

WorkerTaskDone(w) ==
    /\ wpc[w] = "task_done"
    /\ unfinished' = unfinished - 1
    /\ witem' = [witem EXCEPT ![w] = None]
    /\ wpc' = [wpc EXCEPT ![w] = "get"]
    /\ UNCHANGED <<q, mainpc, started, to_put, sentinels, joined, processed>>

InitPool ==
    /\ \E n \in 1..MaxWorkers :
          /\ wpc = [w \in 1..n |-> "unstarted"]
          /\ witem = [w \in 1..n |-> None]
    /\ \E n \in 0..MaxFields : to_put = [i \in 1..n |-> i]
    /\ q = <<>>
    /\ unfinished = 0
    /\ mainpc = "start"
    /\ started = 0
    /\ sentinels = 0
    /\ joined = 0
    /\ processed = <<>>
    /\ IdleBatch /\ IdleImport /\ IdleEnc /\ IdleReader /\ IdleMore

NextPool ==
    \/ StartThread /\ UNCHANGED <<batchVars, importVars, encVars, readerVars, moreVars>>
    \/ PutItem /\ UNCHANGED <<batchVars, importVars, encVars, readerVars, moreVars>>
    \/ QueueJoin /\ UNCHANGED <<batchVars, importVars, encVars, readerVars, moreVars>>
    \/ PutSentinel /\ UNCHANGED <<batchVars, importVars, encVars, readerVars, moreVars>>
    \/ JoinThread /\ UNCHANGED <<batchVars, importVars, encVars, readerVars, moreVars>>
    \/ \E w \in Workers :
          WorkerGet(w) /\ UNCHANGED <<batchVars, importVars, encVars, readerVars, moreVars>>
    \/ \E w \in Workers :
          WorkerImportOk(w) /\ UNCHANGED <<batchVars, importVars, encVars, readerVars, moreVars>>
    \/ \E w \in Workers :
          WorkerImportRaises(w) /\ UNCHANGED <<batchVars, importVars, encVars, readerVars, moreVars>>
    \/ \E w \in Workers :
          WorkerTaskDone(w) /\ UNCHANGED <<batchVars, importVars, encVars, readerVars, moreVars>>

SpecPool == InitPool /\ [][NextPool]_vars

\* a worker whose import raised: its thread has ended holding the item
FailedWorkers == {w \in Workers : wpc[w] = "dead"}

\* import_csv waits in q.join() and nothing can ever call task_done again:
\* every worker has ended or waits in q.get() on the empty queue
BlockedOnJoin ==
    /\ mainpc = "join"
    /\ unfinished > 0
    /\ \A w \in Workers :
          \/ wpc[w] \in {"dead", "exited"}
          \/ wpc[w] = "get" /\ q = <<>>

(***************************************************************************)
(* C10: an error raised while a worker processes an item is surfaced to    *)
(* the orchestrator: because of a failed item import_csv never stays       *)
(* blocked forever on the drain barrier q.join().                          *)
(***************************************************************************)
C10_FailureSurfaced == FailedWorkers # {} => ~BlockedOnJoin

(***************************************************************************)
(* Views of the state of SpecPool.                                         *)
(***************************************************************************)
\* the work items on the queue, and the workers holding one whose import has
\* not returned
QueuedItems == {i \in DOMAIN q : q[i] # None}

Holding == {w \in Workers : wpc[w] \in {"work", "dead"}}

\* number of items put so far
PutCount == Cardinality(QueuedItems) + Cardinality(Holding) + Len(processed)

\* every item put so far is at exactly one place: on the queue, with one
\* worker, or in the list of completed imports
ItemsConserved ==
    /\ to_put = [i \in 1..Len(to_put) |-> PutCount + i]
    /\ \A k \in 1..PutCount :
          Cardinality({i \in QueuedItems : q[i] = Item(k)})
            + Cardinality({w \in Holding : witem[w] = Item(k)})
            + Cardinality({i \in DOMAIN processed : processed[i] = Item(k)}) = 1
    /\ \A w \in Workers :
          (witem[w] # None) <=> (wpc[w] \in {"work", "task_done", "dead"})

PastBarrier == mainpc \in {"stop", "join_threads", "done"}

(***************************************************************************)
(* C11: import_csv puts no sentinel and does not go on to shutdown until   *)
(* every item it put has been completely processed by a worker (its import *)
(* returned and task_done was called), not merely taken off the queue.     *)
(***************************************************************************)
C11_DrainBarrier ==
    /\ ItemsConserved
    /\ sentinels > 0 => PastBarrier
    /\ PastBarrier =>
          /\ to_put = <<>>
          /\ QueuedItems = {}
          /\ Holding = {}
          /\ \A w \in Workers : witem[w] = None
          /\ \A k \in 1..PutCount : \E i \in DOMAIN processed : processed[i] = Item(k)
          /\ unfinished = sentinels

C11_Witness ==
    /\ mainpc = "stop"
    /\ sentinels = 1
    /\ THREAD_COUNT = 2
    /\ processed = <<Item(2), Item(1)>>

(***************************************************************************)
(* C12: when import_csv returns it has put exactly one sentinel per worker *)
(* and joined every worker; every worker thread has ended by taking one    *)
(* sentinel, and the queue is empty.                                       *)
(***************************************************************************)
C12_Shutdown ==
    /\ sentinels <= THREAD_COUNT
    /\ Cardinality({w \in Workers : wpc[w] = "exited"})
          + Cardinality({i \in DOMAIN q : q[i] = None}) = sentinels
    /\ mainpc \in {"join_threads", "done"} => sentinels = THREAD_COUNT
    /\ \A w \in 1..joined : wpc[w] \in {"exited", "dead"}
    /\ mainpc = "done" =>
          /\ joined = THREAD_COUNT
          /\ \A w \in Workers : wpc[w] = "exited"
          /\ q = <<>>

C12_Witness ==
    /\ mainpc = "done"
    /\ THREAD_COUNT = 2
    /\ Len(processed) = 3

(***************************************************************************)
(* C13: every item put on the queue is taken by exactly one worker and     *)
(* processed once: no item is with two workers, none is processed twice,   *)
(* and none is left unprocessed when import_csv returns.                   *)
(***************************************************************************)
C13_ExactlyOnce ==
    /\ ItemsConserved
    /\ \A v, w \in Holding : witem[v] = witem[w] => v = w
    /\ \A i, j \in DOMAIN processed : processed[i] = processed[j] => i = j
    /\ \A i \in DOMAIN processed : \A w \in Holding : processed[i] # witem[w]
    /\ mainpc = "done" =>
          /\ to_put = <<>>
          /\ {processed[i] : i \in DOMAIN processed} = {Item(k) : k \in 1..PutCount}
          /\ QueuedItems = {} /\ Holding = {}

C13_Witness ==
    /\ mainpc = "done"
    /\ THREAD_COUNT = 2
    /\ processed = <<Item(2), Item(1), Item(3)>>

(***************************************************************************)
(* import.py:157-161 gives every worker thread the same Client object, and *)
(* each worker's client.import_field runs the lookup of _import_data       *)
(* through __http_request of that Client (client.py:410-448).  Here every  *)
(* worker is inside one such request; client is the shared Client, http[w] *)
(* the locals of worker w's call (passes made, value get_host returned,    *)
(* address computed), wpc[w] its position; an action is one read or write  *)
(* of an attribute of the Client.                                          *)
(***************************************************************************)
sharedRest == <<field, opts, cur, nodes, node_i, nclient, raised, sent, lookups,
                q, unfinished, mainpc, started, to_put, sentinels, joined,
                witem, processed>>

Local(tries) == [tries |-> tries, host |-> None, uri |-> None, error |-> NoError]

\* line 415: the head of the loop; line 438 when the passes are used up
LoopHead(w) ==
    /\ wpc[w] = "call"
    /\ IF http[w].tries < _MAX_HOSTS
          THEN wpc' = [wpc EXCEPT ![w] = "check"] /\ http' = http
          ELSE /\ wpc' = [wpc EXCEPT ![w] = "raised"]
               /\ http' = [http EXCEPT ![w].error = "PilosaError"]
    /\ UNCHANGED <<client, sharedRest>>

\* line 445: the test self.__current_host is None
CheckCurrentHost(w) ==
    /\ wpc[w] = "check"
    /\ wpc' = [wpc EXCEPT ![w] = IF client.current_host = None
                                     THEN "get_host" ELSE "normalize"]
    /\ UNCHANGED <<client, http, sharedRest>>

\* line 446, right-hand side: self.cluster.get_host(), which resets the
\* cluster and raises when no host is available
CallGetHost(w) ==
    /\ wpc[w] = "get_host"
    /\ IF GetHost(client.cluster) = None
          THEN /\ client' = [client EXCEPT !.cluster = Reset(@)]
               /\ http' = [http EXCEPT ![w].error = "PilosaError"]
               /\ wpc' = [wpc EXCEPT ![w] = "raised"]
          ELSE /\ client' = client
               /\ http' = [http EXCEPT ![w].host = GetHost(client.cluster)]
               /\ wpc' = [wpc EXCEPT ![w] = "set_host"]
    /\ UNCHANGED sharedRest

\* line 446, the assignment to self.__current_host
SetCurrentHost(w) ==
    /\ wpc[w] = "set_host"
    /\ client' = [client EXCEPT !.current_host = http[w].host]
    /\ wpc' = [wpc EXCEPT ![w] = "normalize"]
    /\ UNCHANGED <<http, sharedRest>>

\* line 448: self.__current_host._normalize(); None has no _normalize
NormalizeCurrentHost(w) ==
    /\ wpc[w] = "normalize"
    /\ IF client.current_host = None
          THEN /\ http' = [http EXCEPT ![w].error = "AttributeError"]
               /\ wpc' = [wpc EXCEPT ![w] = "raised"]
          ELSE /\ http' = [http EXCEPT ![w].uri = Normalize(client.current_host)]
               /\ wpc' = [wpc EXCEPT ![w] = "request"]
    /\ UNCHANGED <<client, sharedRest>>

\* lines 424-427 and 440-441: a 2xx response
RequestOk(w) ==
    /\ wpc[w] = "request"
    /\ wpc' = [wpc EXCEPT ![w] = "returned"]
    /\ UNCHANGED <<client, http, sharedRest>>

\* lines 424-427 and 442: a response that is not 2xx
RequestServerError(w) ==
    /\ wpc[w] = "request"
    /\ http' = [http EXCEPT ![w].error = "PilosaServerError"]
    /\ wpc' = [wpc EXCEPT ![w] = "raised"]
    /\ UNCHANGED <<client, sharedRest>>

\* lines 428-429: MaxRetryError; with use_manual_address the pass just ends
RequestMaxRetryError(w) ==
    /\ wpc[w] = "request"
    /\ IF client.use_manual_address
          THEN /\ http' = [http EXCEPT ![w] = Local(@.tries + 1)]
               /\ wpc' = [wpc EXCEPT ![w] = "call"]
          ELSE /\ http' = http
               /\ wpc' = [wpc EXCEPT ![w] = "remove"]
    /\ UNCHANGED <<client, sharedRest>>

\* line 433: self.cluster.remove_host(self.__current_host); URI.__eq__ gives
\* False for None, so remove_host(None) changes nothing
CallRemoveHost(w) ==
    /\ wpc[w] = "remove"
    /\ client' = [client EXCEPT !.cluster = RemoveHost(@, client.current_host)]
    /\ wpc' = [wpc EXCEPT ![w] = "clear"]
    /\ UNCHANGED <<http, sharedRest>>

\* line 435: self.__current_host = None, and the pass ends
ClearCurrentHost(w) ==
    /\ wpc[w] = "clear"
    /\ client' = [client EXCEPT !.current_host = None]
    /\ http' = [http EXCEPT ![w] = Local(@.tries + 1)]
    /\ wpc' = [wpc EXCEPT ![w] = "call"]
    /\ UNCHANGED sharedRest

\* the Client import_csv made (one address) or one made from a Cluster or
\* with use_manual_address; its current host is set if it already served a
\* request, as import_csv's client has in sync_schema
SharedClients ==
    {NewClient(H1, TRUE)}
    \cup {[c EXCEPT !.current_host = h] :
             c \in {NewClient(H1, FALSE), NewClusterClient(ClusterOf(<<H1, H2>>))},
             h \in {None, H1}}

InitShared ==
    /\ client \in SharedClients
    /\ \E n \in 1..MaxWorkers :
          /\ wpc = [w \in 1..n |-> "call"]
          /\ witem = [w \in 1..n |-> Item(w)]
          /\ http = [w \in 1..n |-> Local(0)]
          /\ unfinished = n
          /\ started = n
    /\ q = <<>>
    /\ mainpc = "join"
    /\ to_put = <<>>
    /\ sentinels = 0
    /\ joined = 0
    /\ processed = <<>>
    /\ field = None /\ opts = None /\ cur = None /\ nodes = <<>> /\ node_i = 0
    /\ nclient = None /\ raised = NoError /\ sent = <<>> /\ lookups = <<>>
    /\ IdleBatch /\ IdleEnc /\ IdleReader /\ IdleMore

NextShared ==
    \/ \E w \in Workers : LoopHead(w) /\ UNCHANGED <<batchVars, encVars, readerVars, moreVars>>
    \/ \E w \in Workers : CheckCurrentHost(w) /\ UNCHANGED <<batchVars, encVars, readerVars, moreVars>>
    \/ \E w \in Workers : CallGetHost(w) /\ UNCHANGED <<batchVars, encVars, readerVars, moreVars>>
    \/ \E w \in Workers : SetCurrentHost(w) /\ UNCHANGED <<batchVars, encVars, readerVars, moreVars>>
    \/ \E w \in Workers : NormalizeCurrentHost(w) /\ UNCHANGED <<batchVars, encVars, readerVars, moreVars>>
    \/ \E w \in Workers : RequestOk(w) /\ UNCHANGED <<batchVars, encVars, readerVars, moreVars>>
    \/ \E w \in Workers : RequestServerError(w) /\ UNCHANGED <<batchVars, encVars, readerVars, moreVars>>
    \/ \E w \in Workers : RequestMaxRetryError(w) /\ UNCHANGED <<batchVars, encVars, readerVars, moreVars>>
    \/ \E w \in Workers : CallRemoveHost(w) /\ UNCHANGED <<batchVars, encVars, readerVars, moreVars>>
    \/ \E w \in Workers : ClearCurrentHost(w) /\ UNCHANGED <<batchVars, encVars, readerVars, moreVars>>

SpecShared == InitShared /\ [][NextShared]_vars

\* what the next step of worker w does to the attributes of the Client
ReadsCurrentHost(w) == wpc[w] \in {"check", "normalize", "remove"}

WritesCurrentHost(w) == wpc[w] \in {"set_host", "clear"}

ReadsHosts(w) == wpc[w] = "get_host"

WritesHosts(w) ==
    \/ wpc[w] = "remove"
    \/ wpc[w] = "get_host" /\ GetHost(client.cluster) = None

(***************************************************************************)
(* C14: the queue is the only mutable state the workers share: no two      *)
(* workers are ever about to access the same attribute of a Client object  *)
(* (its current host, the host flags of its cluster), one of them writing. *)
(***************************************************************************)
C14_QueueSoleShared ==
    \A v, w \in Workers : v # w =>
        /\ ~(WritesCurrentHost(v) /\ (ReadsCurrentHost(w) \/ WritesCurrentHost(w)))
        /\ ~(WritesHosts(v) /\ (ReadsHosts(w) \/ WritesHosts(w)))

(***************************************************************************)
(* imports.py: the CSV readers.  Text is a sequence of one-character       *)
(* strings, so that strip, split and int work on what the line holds.      *)
(***************************************************************************)
MaxLines == 3

Digits == <<"0", "1", "2", "3", "4", "5", "6", "7", "8", "9">>

IsDigit(ch) == \E d \in DOMAIN Digits : Digits[d] = ch

DigitValue(ch) == (CHOOSE d \in DOMAIN Digits : Digits[d] = ch) - 1

\* str.strip(): leading and trailing white space removed
RECURSIVE LStrip(_)
LStrip(t) == IF t # <<>> /\ Head(t) = " " THEN LStrip(Tail(t)) ELSE t

RECURSIVE RStrip(_)
RStrip(t) ==
    IF t # <<>> /\ t[Len(t)] = " " THEN RStrip(SubSeq(t, 1, Len(t) - 1)) ELSE t

Strip(t) == RStrip(LStrip(t))

\* str.split(","): always at least one part
RECURSIVE Split(_)
Split(t) ==
    LET commas == {i \in DOMAIN t : t[i] = ","} IN
    IF commas = {} THEN <<t>>
    ELSE LET i == CHOOSE j \in commas : \A k \in commas : j <= k
         IN  <<SubSeq(t, 1, i - 1)>> \o Split(SubSeq(t, i + 1, Len(t)))

\* int(text): white space around it is ignored, one sign is allowed, then
\* one or more decimal digits; anything else is a ValueError
Unsigned(t) == IF t # <<>> /\ Head(t) \in {"-", "+"} THEN Tail(t) ELSE t

IsInt(text) ==
    LET u == Unsigned(Strip(text)) IN
    u # <<>> /\ \A i \in DOMAIN u : IsDigit(u[i])

RECURSIVE DigitsValue(_)
DigitsValue(u) ==
    IF u = <<>> THEN 0
    ELSE (DigitsValue(SubSeq(u, 1, Len(u) - 1)) * 10) + DigitValue(u[Len(u)])

ParseInt(text) ==
    LET t == Strip(text) IN
    IF Head(t) = "-" THEN 0 - DigitsValue(Tail(t)) ELSE DigitsValue(Unsigned(t))

ColumnFormats == {"csv_row_id_column_id", "csv_row_id_column_key",
                  "csv_row_key_column_id", "csv_row_key_column_key"}

ValueFormats == {"csv_column_id_value", "csv_column_key_value"}

\* the parts a format function passes to int()
IntParts(formatfunc) ==
    CASE formatfunc = "csv_row_id_column_id"   -> {1, 2}
      [] formatfunc = "csv_row_id_column_key"  -> {1}
      [] formatfunc = "csv_row_key_column_id"  -> {2}
      [] formatfunc = "csv_row_key_column_key" -> {}
      [] formatfunc = "csv_column_id_value"    -> {1, 2}
      [] formatfunc = "csv_column_key_value"   -> {2}

ValueError == [raises |-> "ValueError"]

\* lines 104-125: formatfunc(parts, timestamp); an absent key is ""
FormatFunc(formatfunc, parts, timestamp) ==
    IF \E k \in IntParts(formatfunc) : ~IsInt(parts[k]) THEN ValueError
    ELSE CASE formatfunc = "csv_row_id_column_id" ->
                 Column(ParseInt(parts[1]), ParseInt(parts[2]), <<>>, <<>>, timestamp)
           [] formatfunc = "csv_row_id_column_key" ->
                 Column(ParseInt(parts[1]), 0, <<>>, parts[2], timestamp)
           [] formatfunc = "csv_row_key_column_id" ->
                 Column(0, ParseInt(parts[2]), parts[1], <<>>, timestamp)
           [] formatfunc = "csv_row_key_column_key" ->
                 Column(0, 0, parts[1], parts[2], timestamp)
           [] formatfunc = "csv_column_id_value" ->
                 FieldValue(ParseInt(parts[1]), <<>>, ParseInt(parts[2]))
           [] formatfunc = "csv_column_key_value" ->
                 FieldValue(0, parts[1], ParseInt(parts[2]))

\* lines 141-153: what csv_column_reader (timefunc = int) does with one
\* non-blank stripped line: the record it yields or the exception it raises
ColumnReaderLineNoTime(formatfunc, line) ==
    LET parts == Split(line) IN
    IF Len(parts) \in {2, 3}
       THEN LET bit == FormatFunc(formatfunc, parts, 0) IN
            IF bit = ValueError THEN [raises |-> "PilosaError"] ELSE bit
    ELSE [raises |-> "PilosaError"]

ColumnReaderLine(formatfunc, line) ==
    LET parts == Split(line) IN
    IF Len(parts) = 2
       THEN LET bit == FormatFunc(formatfunc, parts, 0) IN
            IF bit = ValueError THEN [raises |-> "PilosaError"] ELSE bit
    ELSE IF Len(parts) = 3
       THEN IF ~IsInt(parts[3]) THEN [raises |-> "PilosaError"]
            ELSE LET bit == FormatFunc(formatfunc, parts, ParseInt(parts[3])) IN
                 IF bit = ValueError THEN [raises |-> "PilosaError"] ELSE bit
    ELSE [raises |-> "PilosaError"]

\* lines 172-177: the same for csv_field_value_reader, which has no try
FieldValueReaderLine(formatfunc, line) ==
    LET parts == Split(line) IN
    IF Len(parts) = 2 THEN FormatFunc(formatfunc, parts, 0)
    ELSE [raises |-> "PilosaError"]

ReaderLine(args, line) ==
    IF args.reader = "csv_column_reader"
       THEN ColumnReaderLine(args.formatfunc, line)
       ELSE FieldValueReaderLine(args.formatfunc, line)

Raises(result) == DOMAIN result = {"raises"}

\* for line in file_obj, when the file is exhausted: the generator ends
ReaderEnd ==
    /\ rpc = "next"
    /\ file_obj = <<>>
    /\ rpc' = "done"
    /\ UNCHANGED <<file_obj, lines_read, yielded, rargs, rerror>>

\* lines 138-140 / 169-171: a line that is empty after strip is skipped
ReaderSkipBlank ==
    /\ rpc = "next"
    /\ file_obj # <<>>
    /\ Strip(Head(file_obj)) = <<>>
    /\ file_obj' = Tail(file_obj)
    /\ lines_read' = Append(lines_read, Head(file_obj))
    /\ UNCHANGED <<yielded, rargs, rpc, rerror>>

\* the line gives a record, which is yielded
ReaderYield ==
    /\ rpc = "next"
    /\ file_obj # <<>>
    /\ Strip(Head(file_obj)) # <<>>
    /\ ~Raises(ReaderLine(rargs, Strip(Head(file_obj))))
    /\ file_obj' = Tail(file_obj)
    /\ lines_read' = Append(lines_read, Head(file_obj))
    /\ yielded' = Append(yielded, ReaderLine(rargs, Strip(Head(file_obj))))
    /\ UNCHANGED <<rargs, rpc, rerror>>

\* the line raises: the exception leaves the generator, which is finished
ReaderRaise ==
    /\ rpc = "next"
    /\ file_obj # <<>>
    /\ Strip(Head(file_obj)) # <<>>
    /\ Raises(ReaderLine(rargs, Strip(Head(file_obj))))
    /\ file_obj' = Tail(file_obj)
    /\ lines_read' = Append(lines_read, Head(file_obj))
    /\ rerror' = ReaderLine(rargs, Strip(Head(file_obj))).raises
    /\ rpc' = "raised"
    /\ UNCHANGED <<yielded, rargs>>

\* the lines a file may hold:  "", "  ", "1,5", " 5,10 ", "1,5,7", "15",
\* "a,5", "5,a", "a,b", "1,5,a", "1,5,7,1", "-1,5"
CsvLines ==
    { <<>>,
      <<" ", " ">>,
      <<"1", ",", "5">>,
      <<" ", "5", ",", "1", "0", " ">>,
      <<"1", ",", "5", ",", "7">>,
      <<"1", "5">>,
      <<"a", ",", "5">>,
      <<"5", ",", "a">>,
      <<"a", ",", "b">>,
      <<"1", ",", "5", ",", "a">>,
      <<"1", ",", "5", ",", "7", ",", "1">>,
      <<"-", "1", ",", "5">> }

ReaderArgs ==
    {[reader |-> "csv_column_reader", formatfunc |-> f] : f \in ColumnFormats}
    \cup {[reader |-> "csv_field_value_reader", formatfunc |-> f] : f \in ValueFormats}

InitReader ==
    /\ file_obj \in SeqsUpTo(CsvLines, MaxLines)
    /\ rargs \in ReaderArgs
    /\ lines_read = <<>>
    /\ yielded = <<>>
    /\ rpc = "next"
    /\ rerror = NoError
    /\ IdleBatch /\ IdleImport /\ IdleEnc /\ IdlePool /\ IdleMore

NextReader ==
    \/ ReaderEnd /\ UNCHANGED <<batchVars, importVars, encVars, poolVars, moreVars>>
    \/ ReaderSkipBlank /\ UNCHANGED <<batchVars, importVars, encVars, poolVars, moreVars>>
    \/ ReaderYield /\ UNCHANGED <<batchVars, importVars, encVars, poolVars, moreVars>>
    \/ ReaderRaise /\ UNCHANGED <<batchVars, importVars, encVars, poolVars, moreVars>>

SpecReader == InitReader /\ [][NextReader]_vars

\* a non-blank line the readers are required to reject: a field count that
\* is not accepted, or a field that is not an integer where one is required
AcceptedCounts == IF rargs.reader = "csv_column_reader" THEN {2, 3} ELSE {2}

Invalid(line) ==
    LET parts == Split(Strip(line)) IN
    /\ Strip(line) # <<>>
    /\ \/ Len(parts) \notin AcceptedCounts
       \/ \E k \in IntParts(rargs.formatfunc) : ~IsInt(parts[k])
       \/ Len(parts) = 3 /\ ~IsInt(parts[3])

Blank(line) == Strip(line) = <<>>

(***************************************************************************)
(* C15: both CSV readers fail instead of skipping: a non-blank line with a *)
(* field count that is not accepted, or with a field that is not an        *)
(* integer where one is required, makes the reader raise PilosaError at    *)
(* that line, and no record is produced for that line or any later one.    *)
(***************************************************************************)
C15_ReadersFailFast ==
    /\ \A i \in DOMAIN lines_read : Invalid(lines_read[i]) =>
          /\ i = Len(lines_read)
          /\ rpc = "raised"
          /\ rerror = "PilosaError"
    /\ Len(yielded) =
          Cardinality({i \in DOMAIN lines_read :
                          ~Blank(lines_read[i]) /\ ~Invalid(lines_read[i])})
    /\ rpc = "raised" => Invalid(lines_read[Len(lines_read)])

(***************************************************************************)
(* Further views of the history of SpecImport.                             *)
(***************************************************************************)
\* the answered lookups among the attempts
IsAnswer(i, kind) ==
    /\ sent[i].who = "self"
    /\ sent[i].outcome = "2xx"
    /\ sent[i].path.kind = kind

PostsOfGroup(g) == {i \in DOMAIN sent : IsPost(i) /\ sent[i].g = g}

\* exceptions.py: PilosaError and its subclasses
PilosaErrors == {"PilosaError", "PilosaServerError", "ValidationError"}

(***************************************************************************)
(* C16: an empty node list in the answer to the fragment-nodes lookup of a *)
(* shard group is fatal: nothing is sent after it and import_field does    *)
(* not return normally; it never returns normally with a group for which   *)
(* no import request was sent.                                             *)
(***************************************************************************)
C16_EmptyNodesFatal ==
    /\ \A i \in DOMAIN sent :
          (IsAnswer(i, "fragment_nodes") /\ sent[i].response = <<>>) =>
              /\ i = Len(sent)
              /\ pc # "done"
    /\ pc = "done" => \A g \in DOMAIN emitted : PostsOfGroup(g) # {}

(***************************************************************************)
(* C17: the coordinator lookup returns the first node of the /status list  *)
(* that reports isCoordinator; when no node does (also for an empty list)  *)
(* it raises a PilosaError and the import ends without any import request  *)
(* for that shard group.                                                   *)
(***************************************************************************)
C17_FirstCoordinator ==
    \A i \in DOMAIN sent : IsAnswer(i, "status") =>
        LET nds == sent[i].response
            co  == {k \in DOMAIN nds : nds[k].isCoordinator}
        IN  IF co = {}
               THEN /\ i = Len(sent)
                    /\ pc = "raised"
                    /\ raised \in PilosaErrors
                    /\ PostsOfGroup(sent[i].g) = {}
               ELSE /\ raised = NoError \/ i < Len(sent)
                    /\ \A j \in PostsOfGroup(sent[i].g) :
                          \E k \in co :
                              /\ \A m \in co : k <= m
                              /\ sent[j].address = Normalize(URIAddress(nds[k].uri))
                    /\ (i = Len(sent) /\ pc = "nodes") =>
                          \E k \in co :
                              /\ \A m \in co : k <= m
                              /\ nodes = <<nds[k].uri>>

C17_Witness ==
    /\ pc = "raised"
    /\ Len(emitted) = 2
    /\ PostsOfGroup(1) # {}
    /\ \E j \in PostsOfGroup(1) :
          /\ sent[j].outcome = "2xx"
          /\ sent[j].address = NodeAddress(N2)
          /\ Len(sent[LookupBefore(j)].response) = 2
          /\ sent[LookupBefore(j)].response[2].isCoordinator
          /\ sent[LookupBefore(j)].response[1].isCoordinator
    /\ IsAnswer(Len(sent), "status")
    /\ sent[Len(sent)].response = <<[uri |-> N1, isCoordinator |-> FALSE]>>

(***************************************************************************)
(* import_field for a reader the caller made with any format function,     *)
(* whether or not it fits the key flags of the field and its index.        *)
(***************************************************************************)
\* Column / FieldValue objects of every id/key form
AnyRecords(f) ==
    IF FieldType(f) = "int"
        THEN {FieldValue(0, k, v) : k \in ImportKeys, v \in ImportValues}
             \cup {FieldValue(c, "", v) : c \in ImportColumnIds, v \in ImportValues}
        ELSE UNION {RecordsOf(fmt, ImportRowIds, ImportColumnIds, ImportKeys,
                              ImportTimestamps) :
                       fmt \in {"csv_row_id_column_id", "csv_row_id_column_key",
                                "csv_row_key_column_id", "csv_row_key_column_key"}}

InitImportAny ==
    /\ field \in ImportFields
    /\ opts \in [fast_import : BOOLEAN, clear : BOOLEAN]
    /\ client \in {NewClient(H1, TRUE), NewClusterClient(ClusterOf(<<H1, H2>>))}
    /\ reader \in {<<r>> : r \in AnyRecords(field)}
    /\ batch_size = 1
    /\ shard_width = ImportShardWidth(field)
    /\ taken = <<>> /\ bit_groups = <<>> /\ emitted = <<>>
    /\ pc = "pull"
    /\ cur = None /\ nodes = <<>> /\ node_i = 0 /\ nclient = None
    /\ http = None /\ raised = NoError /\ sent = <<>> /\ lookups = <<>>
    /\ IdleEnc /\ IdlePool /\ IdleReader /\ IdleMore

SpecImportAny == InitImportAny /\ [][NextImport]_vars

\* the record has a key exactly where the field (rows) and the index
\* (columns) use keys
FormMatches(f, r) ==
    /\ (r.column_key # "") <=> f.index.keys
    /\ FieldType(f) # "int" => ((r.row_key # "") <=> f.keys)

(***************************************************************************)
(* C18: a record whose id/key form does not match the key flags of the     *)
(* field and its index is rejected: once its group is being imported no    *)
(* import request is sent for the group and import_field does not return   *)
(* normally.                                                               *)
(***************************************************************************)
C18_MismatchRejected ==
    \A g \in DOMAIN emitted :
        (\E k \in DOMAIN emitted[g][2] : ~FormMatches(field, emitted[g][2][k])) =>
            /\ PostsOfGroup(g) = {}
            /\ pc # "done"

(***************************************************************************)
(* The batches of import_field.                                            *)
(***************************************************************************)
\* _import_data has returned for the g-th emitted group
Completed(g) ==
    /\ g \in DOMAIN emitted
    /\ g < Len(emitted) \/ pc \in {"pull", "yield", "done"}

RECURSIVE SumLen(_, _)
SumLen(groups, S) ==
    IF S = {} THEN 0
    ELSE LET g == CHOOSE x \in S : TRUE
         IN  Len(groups[g][2]) + SumLen(groups, S \ {g})

\* records read from the reader whose group has not been through _import_data
Materialized == Len(taken) - SumLen(emitted, {g \in DOMAIN emitted : Completed(g)})

(***************************************************************************)
(* C19: batches are processed in stream order, one at a time: a record of  *)
(* the next batch is pulled from the reader only when every group of the   *)
(* batches before it has been through _import_data and every request for   *)
(* them has been answered; at any moment at most batch_size records have   *)
(* been read without having been through _import_data.                     *)
(***************************************************************************)
C19_State ==
    /\ Materialized <= batch_size
    /\ Materialized >= 0
    /\ \A i, j \in DOMAIN sent : i < j => sent[i].g <= sent[j].g
    /\ \A i \in DOMAIN sent : sent[i].g \in DOMAIN emitted

C19_Pull ==
    taken' # taken =>
        /\ \A g \in DOMAIN emitted : Completed(g)
        /\ bit_groups = <<>>
        /\ SumLen(emitted, DOMAIN emitted) = Len(taken)
        /\ sent # <<>> => sent[Len(sent)].outcome = "2xx"
        /\ taken' = taken \o SubSeq(reader, 1, Len(taken') - Len(taken))
        /\ Len(taken') - Len(taken) <= batch_size
        /\ sent' = sent

C19_OneBatchAtATime == [] C19_State /\ [][C19_Pull]_vars

C19_Witness ==
    /\ batch_size = 1
    /\ Len(taken) = 2
    /\ Len(emitted) = 2
    /\ pc = "http"
    /\ http.who = "node"
    /\ \E i \in PostsOfGroup(1) : sent[i].outcome = "2xx"
    /\ PostsOfGroup(2) = {}

(***************************************************************************)
(* list(batch_columns(...)) run to its end: list keeps asking for the next *)
(* item until the generator returns, so a step that can be taken is taken. *)
(***************************************************************************)
SpecBatchFair == SpecBatch /\ WF_vars(NextBatch)

(***************************************************************************)
(* C20: for a finite reader and batch_size >= 1 batch_columns terminates;  *)
(* when it has terminated the reader is exhausted and every record read,   *)
(* the last partial batch included, has been emitted; after that it emits  *)
(* nothing.                                                                *)
(***************************************************************************)
C20_AtEnd ==
    pc = "done" =>
        /\ reader = <<>>
        /\ bit_groups = <<>>
        /\ SumLen(emitted, DOMAIN emitted) = Len(taken)

C20_AfterEnd == pc = "done" => (pc' = "done" /\ emitted' = emitted /\ taken' = taken)

C20_Terminates == <>(pc = "done") /\ [] C20_AtEnd /\ [][C20_AfterEnd]_vars

C20_Witness ==
    /\ pc = "done"
    /\ batch_size = 2
    /\ Len(taken) = 3
    /\ Len(emitted) = 3

(***************************************************************************)
(* The batches of batch_columns, read off the records pulled so far.       *)
(***************************************************************************)
NumBatches == (Len(taken) + batch_size - 1) \div batch_size

\* the k-th batch islice gave
BatchNo(k) == SubSeq(taken, ((k - 1) * batch_size) + 1, Min(k * batch_size, Len(taken)))

ShardsIn(batch) == {ShardOf(batch[i], shard_width) : i \in DOMAIN batch}

\* number of groups emitted for the batches before the k-th
RECURSIVE GroupsBefore(_)
GroupsBefore(k) ==
    IF k <= 1 THEN 0
    ELSE GroupsBefore(k - 1) + Cardinality(ShardsIn(BatchNo(k - 1)))

\* the positions in emitted of the groups of the k-th batch
GroupsOfBatch(k) ==
    {g \in DOMAIN emitted : GroupsBefore(k) < g /\ g <= GroupsBefore(k + 1)}

(***************************************************************************)
(* C21: batch_columns groups per batch: for each batch of up to batch_size *)
(* consecutive records it emits exactly one (shard, group) pair per        *)
(* distinct shard of that batch, holding the batch's records of that       *)
(* shard; every group is non-empty and has at most batch_size records; a   *)
(* shard that occurs in k batches is emitted k times.                      *)
(***************************************************************************)
C21_GroupsPerBatch ==
    /\ Len(emitted) <= GroupsBefore(NumBatches + 1)
    /\ pc = "done" => Len(emitted) = GroupsBefore(NumBatches + 1)
    /\ \A g \in DOMAIN emitted :
          /\ emitted[g][2] # <<>>
          /\ Len(emitted[g][2]) <= batch_size
    /\ \A k \in 1..NumBatches :
          /\ \A g \in GroupsOfBatch(k) :
                /\ emitted[g][1] \in ShardsIn(BatchNo(k))
                /\ emitted[g][2] =
                      SelectSeq(BatchNo(k),
                                LAMBDA b : ShardOf(b, shard_width) = emitted[g][1])
          /\ \A g, h \in GroupsOfBatch(k) : emitted[g][1] = emitted[h][1] => g = h
          /\ (k < NumBatches \/ pc = "done") =>
                {emitted[g][1] : g \in GroupsOfBatch(k)} = ShardsIn(BatchNo(k))
    /\ pc = "done" =>
          \A s \in ShardsIn(taken) :
              Cardinality({g \in DOMAIN emitted : emitted[g][1] = s})
                = Cardinality({k \in 1..NumBatches : s \in ShardsIn(BatchNo(k))})

C21_Witness ==
    /\ pc = "done"
    /\ batch_size = 2
    /\ Len(taken) = 3
    /\ Len(emitted) = 2
    /\ emitted[1][1] = emitted[2][1]
    /\ Len(emitted[1][2]) = 2

(***************************************************************************)
(* Views for C22: the node list _import_data resolved for a group and what *)
(* a POST carries.                                                         *)
(***************************************************************************)
\* the answered lookup of group g, 0 when there is none
LookupOf(g) ==
    LET js == {j \in DOMAIN sent : /\ sent[j].who = "self"
                                   /\ sent[j].g = g
                                   /\ sent[j].outcome = "2xx"}
    IN  IF js = {} THEN 0 ELSE CHOOSE j \in js : \A k \in js : k <= j

\* lines 341-347: the addresses of the nodes of group g, in the order of the
\* list nodes
Resolved(g) ==
    IF client.use_manual_address
       THEN <<Normalize(client.current_host)>>
       ELSE LET j == LookupOf(g) IN
            IF j = 0 THEN <<>>
            ELSE IF NeedsCoordinator(field)
                    THEN IF CoordinatorOf(sent[j].response) = None THEN <<>>
                         ELSE <<NodeAddress(CoordinatorOf(sent[j].response))>>
                    ELSE MapSeq(FragmentNodesOf(sent[j].response), NodeAddress)

\* the place in the node list attempt i is made for: one past the number of
\* POSTs of its group answered 2xx before it
NodePosition(i) ==
    1 + Cardinality({j \in PostsOfGroup(sent[i].g) : j < i /\ sent[j].outcome = "2xx"})

\* the body of attempt i holds every record of its group
CarriesGroup(i) ==
    LET group == emitted[sent[i].g][2] IN
    CASE sent[i].path.kind = "import-roaring" ->
            \A k \in DOMAIN group :
                BitOf(group[k], BitmapShardWidth) \in sent[i].data.views[<<>>]
      [] FieldType(field) = "int" ->
            LET msg == ParseValueFromString(sent[i].data) IN
            /\ Len(msg.Values) = Len(group)
            /\ Len(msg.ColumnIDs) + Len(msg.ColumnKeys) = Len(group)
            /\ \A k \in DOMAIN group : \E m \in DOMAIN msg.Values :
                  /\ msg.Values[m] = group[k].value
                  /\ IF msg.ColumnIDs # <<>>
                        THEN msg.ColumnIDs[m] = group[k].column_id
                        ELSE msg.ColumnKeys[m] = group[k].column_key
      [] OTHER ->
            LET msg == ParseFromString(sent[i].data) IN
            /\ Len(msg.ColumnIDs) + Len(msg.ColumnKeys) = Len(group)
            /\ Len(msg.RowIDs) + Len(msg.RowKeys) = Len(group)
            /\ \A k \in DOMAIN group : \E m \in DOMAIN group :
                  /\ IF msg.ColumnIDs # <<>>
                        THEN msg.ColumnIDs[m] = group[k].column_id
                        ELSE msg.ColumnKeys[m] = group[k].column_key
                  /\ IF msg.RowIDs # <<>>
                        THEN msg.RowIDs[m] = group[k].row_id
                        ELSE msg.RowKeys[m] = group[k].row_key

(***************************************************************************)
(* C22 amended: for every shard group the POSTs follow the resolved node   *)
(* list in order: every attempt goes to the node at the place reached so   *)
(* far (never to a node outside the list, never to another node after a    *)
(* connection failure) and carries all records of the group; every node of *)
(* the list has answered exactly one POST with 2xx once the group is       *)
(* through; a POST whose connection failed is repeated, to the same node   *)
(* and at most _MAX_HOSTS times in all, only by a client with              *)
(* use_manual_address, and is the last request of the call otherwise.      *)
(***************************************************************************)
C22_OnePostPerNode ==
    \A g \in DOMAIN emitted :
        LET R == Resolved(g)
            P == PostsOfGroup(g)
        IN  /\ \A i \in P :
                  /\ sent[i].method = "POST"
                  /\ NodePosition(i) <= Len(R)
                  /\ sent[i].address = R[NodePosition(i)]
                  /\ CarriesGroup(i)
            /\ \A i \in P : sent[i].outcome = "MaxRetryError" =>
                  IF client.use_manual_address
                     THEN i < Len(sent) => (i + 1) \in P
                     ELSE i = Len(sent)
            /\ \A n \in 1..Len(R) :
                  Cardinality({i \in P : NodePosition(i) = n}) <= _MAX_HOSTS
            /\ Completed(g) =>
                  \A n \in 1..Len(R) :
                      Cardinality({i \in P : /\ NodePosition(i) = n
                                             /\ sent[i].outcome = "2xx"}) = 1

(***************************************************************************)
(* C22 as stated: besides the above, exactly one POST is made per node and *)
(* shard group: no two attempts of a group go to the same node.            *)
(***************************************************************************)
C22_ExactlyOnePost ==
    /\ C22_OnePostPerNode
    /\ \A g \in DOMAIN emitted :
          \A i, j \in PostsOfGroup(g) : sent[i].address = sent[j].address => i = j

C22_Witness ==
    /\ pc = "done"
    /\ raised = NoError
    /\ \E g \in DOMAIN emitted :
          /\ Len(Resolved(g)) = 2
          /\ Resolved(g)[1] # Resolved(g)[2]
          /\ Cardinality(PostsOfGroup(g)) = 2
          /\ Len(emitted[g][2]) = 2

(***************************************************************************)
(* C23: csv_column_reader (with the default time-parsing function int)     *)
(* yields one record per non-blank line, in line order: blank lines are    *)
(* skipped, a line of 2 fields gives a record with timestamp 0, a line of  *)
(* 3 fields a record whose timestamp is int of the third field, the other  *)
(* fields being those of the line; when the reader ends without raising,   *)
(* the number of records equals the number of non-blank lines.             *)
(***************************************************************************)
NonBlankLines == SelectSeq(lines_read, LAMBDA l : Strip(l) # <<>>)

C23_OneRecordPerLine ==
    rargs.reader = "csv_column_reader" =>
        /\ Len(yielded) = Len(NonBlankLines) - (IF rpc = "raised" THEN 1 ELSE 0)
        /\ \A k \in DOMAIN yielded :
              LET parts == Split(Strip(NonBlankLines[k])) IN
              /\ Len(parts) \in {2, 3}
              /\ Len(parts) = 2 => yielded[k].timestamp = 0
              /\ Len(parts) = 3 => /\ IsInt(parts[3])
                                    /\ yielded[k].timestamp = ParseInt(parts[3])
              /\ yielded[k] =
                    FormatFunc(rargs.formatfunc, parts, yielded[k].timestamp)
        /\ rpc = "done" =>
              /\ file_obj = <<>>
              /\ Len(yielded) =
                    Cardinality({i \in DOMAIN lines_read : ~Blank(lines_read[i])})

C23_Witness ==
    /\ rargs.reader = "csv_column_reader"
    /\ rpc = "done"
    /\ Len(lines_read) = 3
    /\ Len(yielded) = 2
    /\ Blank(lines_read[2])
    /\ yielded[1].timestamp = 0
    /\ yielded[2].timestamp = 7

(***************************************************************************)
(* SpecRecreate: Client(...) and the Clients made from the public          *)
(* attributes of the one before, as _import_data makes the Client of a     *)
(* node (client.py lines 348-359).  A timeout is the exact number          *)
(* n / 1000^k, kept as the record of n and k with k as small as possible.  *)
(***************************************************************************)
MaxRecreate == 3

RECURSIVE Canonical(_)
Canonical(v) ==
    IF v.n = 0 THEN [n |-> 0, k |-> 0]
    ELSE IF v.k > 0 /\ v.n % 1000 = 0 THEN Canonical([n |-> v.n \div 1000, k |-> v.k - 1])
    ELSE v

\* an argument given as a whole number
Number(m) == [n |-> m, k |-> 0]

\* x / 1000.0
Div1000(v) == Canonical([n |-> v.n, k |-> v.k + 1])

\* Client.__init__, lines 117-124: the public attributes it sets from its
\* keyword arguments
ClientInit(kw) ==
    [use_manual_address |-> kw.use_manual_address,
     connect_timeout |-> Div1000(kw.connect_timeout),
     socket_timeout |-> Div1000(kw.socket_timeout),
     pool_size_per_route |-> kw.pool_size_per_route,
     pool_size_total |-> kw.pool_size_total,
     retry_count |-> kw.retry_count,
     tls_skip_verify |-> kw.tls_skip_verify,
     tls_ca_certificate_path |-> kw.tls_ca_certificate_path]

\* lines 348-357: client_params, every attribute of self.__dict__ whose name
\* has no leading underscore, cluster and logger left out
ClientParams(c) ==
    [use_manual_address |-> c.use_manual_address,
     connect_timeout |-> c.connect_timeout,
     socket_timeout |-> c.socket_timeout,
     pool_size_per_route |-> c.pool_size_per_route,
     pool_size_total |-> c.pool_size_total,
     retry_count |-> c.retry_count,
     tls_skip_verify |-> c.tls_skip_verify,
     tls_ca_certificate_path |-> c.tls_ca_certificate_path]

\* line 359: Client(address, **client_params)
Recreate ==
    /\ clients # <<>>
    /\ Len(clients) <= MaxRecreate
    /\ clients' = Append(clients, ClientInit(ClientParams(clients[Len(clients)])))

\* the keyword arguments of the first Client, the defaults of line 97 among
\* them; timeouts are in milliseconds
ConnectTimeouts == {0, 1000, 30000}
SocketTimeouts == {0, 500, 300000}

ClientKeywords ==
    [use_manual_address : BOOLEAN,
     connect_timeout : {Number(m) : m \in ConnectTimeouts},
     socket_timeout : {Number(m) : m \in SocketTimeouts},
     pool_size_per_route : {10},
     pool_size_total : {100},
     retry_count : {0, 3},
     tls_skip_verify : {FALSE},
     tls_ca_certificate_path : {""}]

InitRecreate ==
    /\ \E kw \in ClientKeywords : clients = <<ClientInit(kw)>>
    /\ IdleBatch /\ IdleImport /\ IdleEnc /\ IdlePool /\ IdleReader
    /\ IdleCluster /\ IdleRequest

NextRecreate ==
    Recreate /\ UNCHANGED <<batchVars, importVars, encVars, poolVars, readerVars,
                            clusterVars, requestVars>>

SpecRecreate == InitRecreate /\ [][NextRecreate]_vars

(***************************************************************************)
(* C24: a Client made from the public attributes of an existing Client has *)
(* the connect_timeout and the socket_timeout of the original, also after  *)
(* any number of successive recreations.                                   *)
(***************************************************************************)
C24_TimeoutsStay ==
    \A i \in DOMAIN clients :
        /\ clients[i].connect_timeout = clients[1].connect_timeout
        /\ clients[i].socket_timeout = clients[1].socket_timeout

(***************************************************************************)
(* SpecCluster: a Cluster made from a list of hosts and the calls of       *)
(* add_host, remove_host and get_host made on it, one after the other.     *)
(***************************************************************************)
MaxCalls == 5
MaxClusterArgs == 2

D1 == URI("http", "db1.pilosa.com", 10101)
D2 == URI("http", "db2.pilosa.com", 10101)
ClusterURIs == {D1, D2}

\* the distinct members of a sequence, in the order of their first place
RECURSIVE Distinct(_)
Distinct(seq) ==
    IF seq = <<>> THEN <<>>
    ELSE LET front == Distinct(SubSeq(seq, 1, Len(seq) - 1))
             last  == seq[Len(seq)]
         IN  IF last \in Range(front) THEN front ELSE Append(front, last)

Call(op, uri, result) ==
    [op |-> op, uri |-> uri, before |-> cluster_hosts, result |-> result]

ClusterAddHost(uri) ==
    /\ Len(calls) < MaxCalls
    /\ cluster_hosts' = AddHost(cluster_hosts, uri)
    /\ inserted' = Distinct(Append(inserted, uri))
    /\ calls' = Append(calls, Call("add_host", uri, None))

\* remove_host, also with the None that __http_request may pass
ClusterRemoveHost(uri) ==
    /\ Len(calls) < MaxCalls
    /\ cluster_hosts' = RemoveHost(cluster_hosts, uri)
    /\ calls' = Append(calls, Call("remove_host", uri, None))
    /\ UNCHANGED inserted

\* get_host: returns the host, or resets the flags and raises
ClusterGetHost ==
    /\ Len(calls) < MaxCalls
    /\ IF GetHost(cluster_hosts) = None
          THEN /\ cluster_hosts' = Reset(cluster_hosts)
               /\ calls' = Append(calls, Call("get_host", None, [raises |-> "PilosaError"]))
          ELSE /\ cluster_hosts' = cluster_hosts
               /\ calls' = Append(calls, Call("get_host", None, GetHost(cluster_hosts)))
    /\ UNCHANGED inserted

InitCluster ==
    /\ \E args \in SeqsUpTo(ClusterURIs, MaxClusterArgs) :
          /\ cluster_hosts = ClusterOf(args)
          /\ inserted = Distinct(args)
    /\ calls = <<>>
    /\ IdleBatch /\ IdleImport /\ IdleEnc /\ IdlePool /\ IdleReader
    /\ IdleRecreate /\ IdleRequest

clusterRest ==
    <<batchVars, importVars, encVars, poolVars, readerVars, recreateVars, requestVars>>

NextCluster ==
    \/ \E uri \in ClusterURIs : ClusterAddHost(uri) /\ UNCHANGED clusterRest
    \/ \E uri \in ClusterURIs \cup {None} : ClusterRemoveHost(uri) /\ UNCHANGED clusterRest
    \/ ClusterGetHost /\ UNCHANGED clusterRest

SpecCluster == InitCluster /\ [][NextCluster]_vars

\* Cluster.hosts after call i
HostsAfter(i) == IF i = Len(calls) THEN cluster_hosts ELSE calls[i + 1].before

\* the first host of a list of (host, available) pairs that is available and
\* is not the given one; None when there is none
FirstAvailableBut(hs, uri) ==
    LET ok == {i \in DOMAIN hs : hs[i][2] /\ hs[i][1] # uri} IN
    IF ok = {} THEN None
    ELSE hs[CHOOSE i \in ok : \A j \in ok : i <= j][1]

Raised(call) == DOMAIN call.result = {"raises"}

(***************************************************************************)
(* C25: get_host returns the first host, in the order of the list, that is *)
(* marked available, and leaves the list as it is; two calls in a row      *)
(* return the same host; after the host returned is removed, the next call *)
(* returns the next available host; when no host is available (an empty    *)
(* cluster or all removed) get_host raises PilosaError and every host is   *)
(* marked available again, the list being otherwise the same.              *)
(***************************************************************************)
C25_GetHost ==
    /\ \A i \in DOMAIN calls : calls[i].op = "get_host" =>
          LET b  == calls[i].before
              ok == {k \in DOMAIN b : b[k][2]}
          IN  IF ok # {}
                 THEN /\ \E k \in ok : /\ \A j \in ok : k <= j
                                       /\ calls[i].result = b[k][1]
                      /\ HostsAfter(i) = b
                 ELSE /\ calls[i].result = [raises |-> "PilosaError"]
                      /\ Len(HostsAfter(i)) = Len(b)
                      /\ \A k \in DOMAIN b : HostsAfter(i)[k] = <<b[k][1], TRUE>>
    /\ \A i \in DOMAIN calls :
          (/\ i < Len(calls)
           /\ calls[i].op = "get_host" /\ calls[i + 1].op = "get_host"
           /\ ~Raised(calls[i])) =>
              calls[i + 1].result = calls[i].result
    /\ \A i \in DOMAIN calls :
          (/\ i + 2 <= Len(calls)
           /\ calls[i].op = "get_host" /\ ~Raised(calls[i])
           /\ calls[i + 1].op = "remove_host" /\ calls[i + 1].uri = calls[i].result
           /\ calls[i + 2].op = "get_host") =>
              LET next == FirstAvailableBut(calls[i].before, calls[i].result) IN
              IF next = None THEN Raised(calls[i + 2])
              ELSE calls[i + 2].result = next

C25_Witness ==
    /\ Len(calls) = 5
    /\ calls[1].op = "get_host" /\ calls[1].result = D1
    /\ calls[2].op = "remove_host" /\ calls[2].uri = D1
    /\ calls[3].op = "get_host" /\ calls[3].result = D2
    /\ calls[4].op = "remove_host" /\ calls[4].uri = D2
    /\ calls[5].op = "get_host" /\ Raised(calls[5])
    /\ cluster_hosts = <<<<D1, TRUE>>, <<D2, TRUE>>>>

(***************************************************************************)
(* C26: the host list of a Cluster holds each distinct URI at most once,   *)
(* in the order of first insertion, after any calls of add_host and        *)
(* remove_host: add_host of a URI that is present only marks it available, *)
(* remove_host only marks the matching host unavailable; no call deletes   *)
(* or reorders entries or changes the flag of another host.                *)
(***************************************************************************)
C26_NoDuplicates ==
    /\ calls # <<>> =>
          /\ \A i, j \in DOMAIN cluster_hosts :
                cluster_hosts[i][1] = cluster_hosts[j][1] => i = j
          /\ MapSeq(cluster_hosts, LAMBDA item : item[1]) = inserted
    /\ \A i \in DOMAIN calls :
          LET b == calls[i].before
              a == HostsAfter(i)
              present == \E k \in DOMAIN b : b[k][1] = calls[i].uri
          IN  /\ calls[i].op = "add_host" =>
                    IF present
                       THEN /\ Len(a) = Len(b)
                            /\ \A k \in DOMAIN b :
                                  a[k] = IF b[k][1] = calls[i].uri
                                            THEN <<b[k][1], TRUE>> ELSE b[k]
                       ELSE a = Append(b, <<calls[i].uri, TRUE>>)
              /\ calls[i].op = "remove_host" =>
                    /\ Len(a) = Len(b)
                    /\ \A k \in DOMAIN b :
                          a[k] = IF b[k][1] = calls[i].uri
                                    THEN <<b[k][1], FALSE>> ELSE b[k]

(***************************************************************************)
(* SpecRequest: one Client and the calls of __http_request made on it one  *)
(* after the other (client.py lines 410-448), with and without             *)
(* use_coordinator, one action per call of self.__client.request.  A URL   *)
(* is the record of the parts the format string puts together.             *)
(***************************************************************************)
MaxRequests == 2
MaxClusterHosts == 11

HostNames ==
    <<"nonexistent0", "nonexistent1", "nonexistent2", "nonexistent3",
      "nonexistent4", "nonexistent5", "nonexistent6", "nonexistent7",
      "nonexistent8", "nonexistent9", "nonexistent10", "nonexistent11">>

\* URI.address("nonexistent%s" % i)
HostNo(i) == URI("http", HostNames[i], 10101)

\* "%s://%s:%s%s" % (scheme, host, port, path) and "%s%s" % (address, path)
Url(address, path) ==
    [scheme |-> address.scheme, host |-> address.host, port |-> address.port,
     path |-> path]

\* the local uri = ""
EmptyUrl == [scheme |-> "", host |-> "", port |-> 0, path |-> ""]

AddressOf(url) == [scheme |-> url.scheme, host |-> url.host, port |-> url.port]

\* Client(cluster_or_uri, use_manual_address=...), lines 125-148
NewRequestClient(arg, use_manual_address) ==
    IF use_manual_address
       THEN [use_manual_address |-> TRUE, cluster |-> None,
             current_host |-> arg, coordinator_uri |-> arg]
       ELSE [use_manual_address |-> FALSE, cluster |-> arg,
             current_host |-> None, coordinator_uri |-> None]

QueryPath == [kind |-> "query", index |-> "i"]

Attempt(purpose, host, url, outcome) ==
    [n |-> Len(results) + 1, use_coordinator |-> rq.use_coordinator,
     purpose |-> purpose, host |-> host, url |-> url, outcome |-> outcome]

\* the call ends: what it returned or raised, and cluster.hosts at that time
Finish(outcome, c) ==
    /\ results' = Append(results, [use_coordinator |-> rq.use_coordinator,
                                   outcome |-> outcome,
                                   hosts |-> c.cluster])
    /\ rq' = None

\* a caller starts __http_request(method, path, use_coordinator=...)
RequestBegin(use_coordinator) ==
    /\ rq = None
    /\ Len(results) < MaxRequests
    /\ rq' = [use_coordinator |-> use_coordinator, path |-> QueryPath,
              stage |-> "top", tries |-> 0, fetch_tries |-> 0, uri |-> EmptyUrl]
    /\ UNCHANGED <<rclient, down, coord, attempts, results>>

\* the loop whose pass is running: that of the request itself, or that of
\* the GET /status of _fetch_coordinator_node
UsesAddress ==
    /\ rq # None
    /\ \/ rq.stage = "top" /\ ~rq.use_coordinator
       \/ rq.stage = "fetch"

PassPath == IF rq.stage = "fetch" THEN StatusPath ELSE rq.path
PassPurpose == IF rq.stage = "fetch" THEN "status" ELSE "request"
PassTries == IF rq.stage = "fetch" THEN rq.fetch_tries ELSE rq.tries

\* lines 444-446 and 613-615: __get_address finds no host, get_host resets
\* the flags and raises
AddressNoHost ==
    /\ UsesAddress
    /\ NoHost(rclient)
    /\ rclient' = [rclient EXCEPT !.cluster = Reset(@)]
    /\ Finish("PilosaError", rclient')
    /\ UNCHANGED <<down, coord, attempts>>

\* lines 422-438: no connection to the current host
AddressMaxRetryError ==
    /\ UsesAddress
    /\ ~NoHost(rclient)
    /\ LET c == WithCurrentHost(rclient)
           url == Url(Normalize(c.current_host), PassPath)
       IN  /\ AddressOf(url) \in down
           /\ attempts' = Append(attempts, Attempt(PassPurpose, c.current_host, url,
                                                   "MaxRetryError"))
           /\ rclient' = IF c.use_manual_address THEN c
                         ELSE [c EXCEPT !.cluster = RemoveHost(@, c.current_host),
                                        !.current_host = None]
           /\ IF PassTries + 1 = _MAX_HOSTS
                 THEN Finish("PilosaError", rclient')
                 ELSE /\ rq' = IF rq.stage = "fetch"
                                  THEN [rq EXCEPT !.fetch_tries = @ + 1]
                                  ELSE [rq EXCEPT !.tries = @ + 1]
                      /\ UNCHANGED results
    /\ UNCHANGED <<down, coord>>

\* lines 422-427 and 440-442: the current host answers; the answer to the
\* request ends the call, the answer to GET /status is searched for the
\* coordinator (lines 381-388, 419-421)
AddressResponse(ok) ==
    /\ UsesAddress
    /\ ~NoHost(rclient)
    /\ LET c == WithCurrentHost(rclient)
           url == Url(Normalize(c.current_host), PassPath)
       IN  /\ AddressOf(url) \notin down
           /\ attempts' = Append(attempts, Attempt(PassPurpose, c.current_host, url,
                                                   IF ok THEN "2xx" ELSE "non2xx"))
           /\ IF ~ok
                 THEN rclient' = c /\ Finish("PilosaServerError", c)
              ELSE IF rq.stage # "fetch"
                 THEN rclient' = c /\ Finish("response", c)
              ELSE IF CoordinatorOf(coord) = None
                 THEN rclient' = c /\ Finish("PilosaServerError", c)
              ELSE LET uri == Url(CoordinatorOf(coord), rq.path) IN
                   /\ rclient' = [c EXCEPT !.coordinator_uri = uri]
                   /\ rq' = [rq EXCEPT !.stage = "send", !.uri = uri]
                   /\ UNCHANGED results
    /\ UNCHANGED <<down, coord>>

\* lines 416-419: no coordinator is known, _fetch_coordinator_node is called
CoordinatorLookup ==
    /\ rq # None /\ rq.stage = "top" /\ rq.use_coordinator
    /\ rclient.coordinator_uri = None
    /\ rq' = [rq EXCEPT !.stage = "fetch", !.fetch_tries = 0, !.uri = EmptyUrl]
    /\ UNCHANGED <<rclient, down, coord, attempts, results>>

\* lines 415-418 and 424: __coordinator_uri is set, the local uri stays ""
\* and is what the request is made with; a URL without a host cannot be
\* connected to, and the connection manager raises, MaxRetryError or another
\* exception
CoordinatorCached(error) ==
    /\ rq # None /\ rq.stage = "top" /\ rq.use_coordinator
    /\ rclient.coordinator_uri # None
    /\ attempts' = Append(attempts, Attempt("request", None, EmptyUrl, error))
    /\ IF error = "MaxRetryError"
          THEN /\ rclient' = IF rclient.use_manual_address THEN rclient
                             ELSE [rclient EXCEPT !.coordinator_uri = None]
               /\ IF rq.tries + 1 = _MAX_HOSTS
                     THEN Finish("PilosaError", rclient')
                     ELSE rq' = [rq EXCEPT !.tries = @ + 1] /\ UNCHANGED results
          ELSE /\ rclient' = rclient
               /\ Finish(error, rclient)
    /\ UNCHANGED <<down, coord>>

\* lines 420-438: the request goes to the coordinator just looked up, which
\* cannot be connected to
CoordinatorMaxRetryError ==
    /\ rq # None /\ rq.stage = "send"
    /\ AddressOf(rq.uri) \in down
    /\ attempts' = Append(attempts, Attempt("request", None, rq.uri, "MaxRetryError"))
    /\ rclient' = IF rclient.use_manual_address THEN rclient
                  ELSE [rclient EXCEPT !.coordinator_uri = None]
    /\ IF rq.tries + 1 = _MAX_HOSTS
          THEN Finish("PilosaError", rclient')
          ELSE /\ rq' = [rq EXCEPT !.tries = @ + 1, !.stage = "top", !.uri = EmptyUrl]
               /\ UNCHANGED results
    /\ UNCHANGED <<down, coord>>

\* lines 420-427 and 440-442: the coordinator answers
CoordinatorResponse(ok) ==
    /\ rq # None /\ rq.stage = "send"
    /\ AddressOf(rq.uri) \notin down
    /\ attempts' = Append(attempts, Attempt("request", None, rq.uri,
                                            IF ok THEN "2xx" ELSE "non2xx"))
    /\ Finish(IF ok THEN "response" ELSE "PilosaServerError", rclient)
    /\ UNCHANGED <<rclient, down, coord>>

\* the clients: one made from a cluster of 0 to MaxClusterHosts hosts, one
\* made from a manual address
RequestClients ==
    {NewRequestClient(ClusterOf([i \in 1..n |-> HostNo(i)]), FALSE) :
        n \in 0..MaxClusterHosts}
    \cup {NewRequestClient(HostNo(1), TRUE)}

\* who cannot be connected to: nobody, every host, the first host of the
\* cluster, the coordinator
EveryHost == {Normalize(HostNo(i)) : i \in DOMAIN HostNames}
Downs == {{}, EveryHost, {Normalize(HostNo(1))}, {AddressOf(Url(N2, QueryPath))}}

InitRequest ==
    /\ rclient \in RequestClients
    /\ down \in Downs
    /\ coord \in StatusResponses
    /\ rq = None /\ attempts = <<>> /\ results = <<>>
    /\ IdleBatch /\ IdleImport /\ IdleEnc /\ IdlePool /\ IdleReader
    /\ IdleCluster /\ IdleRecreate

requestRest ==
    <<batchVars, importVars, encVars, poolVars, readerVars, clusterVars, recreateVars>>

NextRequest ==
    \/ \E uc \in BOOLEAN : RequestBegin(uc) /\ UNCHANGED requestRest
    \/ AddressNoHost /\ UNCHANGED requestRest
    \/ AddressMaxRetryError /\ UNCHANGED requestRest
    \/ \E ok \in BOOLEAN : AddressResponse(ok) /\ UNCHANGED requestRest
    \/ CoordinatorLookup /\ UNCHANGED requestRest
    \/ \E e \in {"MaxRetryError", "LocationValueError"} :
          CoordinatorCached(e) /\ UNCHANGED requestRest
    \/ CoordinatorMaxRetryError /\ UNCHANGED requestRest
    \/ \E ok \in BOOLEAN : CoordinatorResponse(ok) /\ UNCHANGED requestRest

SpecRequest == InitRequest /\ [][NextRequest]_vars

\* the calls of self.__client.request made by request n
AttemptsOf(n) == {i \in DOMAIN attempts : attempts[i].n = n}

\* the requests begun so far
Requests == 1..(Len(results) + (IF rq = None THEN 0 ELSE 1))

\* the client was built from a cluster and no host of it can be connected to
AllHostsDown ==
    /\ ~rclient.use_manual_address
    /\ \A k \in DOMAIN rclient.cluster : Normalize(rclient.cluster[k][1]) \in down

Available(hs, host) == \E k \in DOMAIN hs : hs[k] = <<host, TRUE>>

(***************************************************************************)
(* C27 amended: for a client built from a cluster whose hosts are all      *)
(* unreachable, a request makes at most _MAX_HOSTS connection attempts,    *)
(* each to a host of the cluster no earlier attempt of the request went    *)
(* to, none of them answered; a host is marked unavailable when the        *)
(* attempt to it fails; the request ends with PilosaError and returns no   *)
(* response.  When it ends after _MAX_HOSTS attempts the hosts that failed *)
(* stay marked unavailable; when the hosts run out before, get_host marks  *)
(* every host available again as it raises.                                *)
(***************************************************************************)
C27_BoundedFailover ==
    AllHostsDown =>
        \A n \in Requests :
            LET A == AttemptsOf(n) IN
            /\ Cardinality(A) <= _MAX_HOSTS
            /\ \A i \in A :
                  /\ attempts[i].outcome = "MaxRetryError"
                  /\ \E k \in DOMAIN rclient.cluster :
                        rclient.cluster[k][1] = attempts[i].host
            /\ \A i, j \in A : attempts[i].host = attempts[j].host => i = j
            /\ n <= Len(results) =>
                  /\ results[n].outcome = "PilosaError"
                  /\ IF Cardinality(A) = _MAX_HOSTS
                        THEN \A i \in A : ~Available(results[n].hosts, attempts[i].host)
                        ELSE \A k \in DOMAIN results[n].hosts : results[n].hosts[k][2]
            /\ n > Len(results) =>
                  /\ Cardinality(A) < _MAX_HOSTS
                  /\ Cardinality(A) = rq.tries + rq.fetch_tries
                  /\ \A i \in A : ~Available(rclient.cluster, attempts[i].host)

(***************************************************************************)
(* C27 as stated: when the request has ended with its PilosaError, every   *)
(* host that failed during it is marked unavailable in the client's        *)
(* cluster.                                                                *)
(***************************************************************************)
C27_FailedStayUnavailable ==
    AllHostsDown =>
        \A n \in 1..Len(results) :
            /\ results[n].outcome = "PilosaError"
            /\ Cardinality(AttemptsOf(n)) <= _MAX_HOSTS
            /\ \A i \in AttemptsOf(n) :
                  ~Available(results[n].hosts, attempts[i].host)

C27_Witness ==
    /\ AllHostsDown
    /\ Len(results) = 2
    /\ Cardinality(AttemptsOf(1)) = _MAX_HOSTS
    /\ Cardinality(AttemptsOf(2)) = 1
    /\ results[1].outcome = "PilosaError"
    /\ \E k \in DOMAIN results[1].hosts : results[1].hosts[k][2]
    /\ \A k \in DOMAIN results[2].hosts : results[2].hosts[k][2]

(***************************************************************************)
(* C29: every request made with use_coordinator is sent to the URL         *)
(* scheme://host:port of the node that reports itself coordinator,         *)
(* followed by the path of the request: the first such request of a Client *)
(* and every later one, also for a Client with use_manual_address.         *)
(***************************************************************************)
C29_SentToCoordinator ==
    \A i \in DOMAIN attempts :
        (attempts[i].use_coordinator /\ attempts[i].purpose = "request") =>
            /\ CoordinatorOf(coord) # None
            /\ attempts[i].url = Url(CoordinatorOf(coord), QueryPath)

(***************************************************************************)
(* SpecPoolFair: import_csv with threads that are scheduled fairly: the    *)
(* main thread and every worker thread takes its next step if that step    *)
(* stays possible (a thread blocked in q.get(), q.join() or t.join() has   *)
(* no step to take).                                                       *)
(***************************************************************************)
poolRest == <<batchVars, importVars, encVars, readerVars, moreVars>>

\* the steps of the thread that runs import_csv
MainStep ==
    /\ StartThread \/ PutItem \/ QueueJoin \/ PutSentinel \/ JoinThread
    /\ UNCHANGED poolRest

\* the steps of worker thread w
WorkerStep(w) ==
    /\ w \in Workers
    /\ WorkerGet(w) \/ WorkerImportOk(w) \/ WorkerImportRaises(w) \/ WorkerTaskDone(w)
    /\ UNCHANGED poolRest

SpecPoolFair ==
    /\ SpecPool
    /\ WF_vars(MainStep)
    /\ \A w \in 1..MaxWorkers : WF_vars(WorkerStep(w))

\* the phases of import_csv: 1 scheduling (threads started, items put),
\* 2 draining (q.join()), 3 stopping the workers, 4 done
PhaseOf(at) ==
    CASE at \in {"start", "put"} -> 1
      [] at = "join" -> 2
      [] at \in {"stop", "join_threads"} -> 3
      [] at = "done" -> 4

(***************************************************************************)
(* C28: when the processing of every work item succeeds, for any number of *)
(* work items (zero, and more than there are workers, included) and any    *)
(* number of workers >= 1, import_csv goes through scheduling, draining    *)
(* and stopping in that order and, the threads being scheduled fairly,     *)
(* eventually returns: it is never blocked for ever.                       *)
(***************************************************************************)
C28_EventuallyDone ==
    /\ [][PhaseOf(mainpc') \in {PhaseOf(mainpc), PhaseOf(mainpc) + 1}]_vars
    /\ <>(mainpc = "done" \/ FailedWorkers # {})

C28_Witness ==
    /\ mainpc = "done"
    /\ FailedWorkers = {}
    /\ THREAD_COUNT = 2
    /\ Len(processed) = 3
    /\ \A w \in Workers : wpc[w] = "exited"

(***************************************************************************)
(* C30: when several threads make requests on one shared Client and hosts  *)
(* fail, under every interleaving the address a request uses is the        *)
(* normalized address of a host of the Client's cluster (of its manual     *)
(* address): __get_address never dereferences an unset current host, and   *)
(* remove_host is never called with an unset host.                         *)
(***************************************************************************)
C30_NoUnsetHost ==
    \A w \in Workers :
        /\ http[w].error # "AttributeError"
        /\ wpc[w] = "request" =>
              IF client.use_manual_address
                 THEN http[w].uri = Normalize(client.current_host)
                 ELSE \E k \in DOMAIN client.cluster :
                         http[w].uri = Normalize(client.cluster[k][1])
        /\ wpc[w] = "remove" => client.current_host # None

====
